---- MODULE Spec2Model ----
(***************************************************************************)
(* Export engine of ALLDJ: copy_rekordbox_playlists_to_usb.py              *)
(* (RekordboxPlaylistCopier), export_rekordbox_playlists_to_usb.py         *)
(* (RekordboxUSBExporter) and export_playlists_to_usb.py                   *)
(* (ResumableExporter).  The file system of the destination device, the    *)
(* persisted state files and the position of the running process are the   *)
(* state; one action per step of the code between two file-system effects. *)
(*                                                                         *)
(* A path is a sequence of components, a component (and a playlist name)   *)
(* is a sequence of tokens: a token is one character, or a run of ordinary *)
(* characters that no function of the program looks into.                  *)
(***************************************************************************)
EXTENDS Integers, Sequences, FiniteSets, TLC

\* ------------------------------------------------------------------ bounds
MaxRuns == 2        \* runs of the program per behaviour
MaxSize == 2        \* size of the largest source file, in copy chunks
MaxFaults == 1      \* injected I/O faults, exceptions and interruptions per behaviour

\* --------------------------------------------------------------- sequences
Last(s) == s[Len(s)]

Front(s) == SubSeq(s, 1, Len(s) - 1)

Min(a, b) == IF a < b THEN a ELSE b

IsPrefix(p, s) == Len(p) <= Len(s) /\ SubSeq(s, 1, Len(p)) = p

RECURSIVE Flatten(_)
Flatten(ss) == IF ss = <<>> THEN <<>> ELSE Head(ss) \o Flatten(Tail(ss))

Range(s) == {s[k] : k \in DOMAIN s}

\* ------------------------------------------------- the source file system
\* Two collections: "library", three files in a catalog of five nodes, and
\* "bulk", a collection kept twice, under Music/ALLDJ (files g) and under
\* Music (files h, re-encoded to another size), in one playlist; and "gaps",
\* the three files of the library in two playlists, named "G:" and "G|",
\* that also hold a row of djmdContent without a file name.
VARIABLE catalog

LibraryFiles == {"f1", "f2", "f3"}

BulkG ==
  <<
     "g01", "g02", "g03", "g04", "g05", "g06", "g07",
     "g08", "g09", "g10", "g11", "g12", "g13", "g14",
     "g15", "g16", "g17", "g18", "g19", "g20", "g21",
     "g22", "g23", "g24", "g25", "g26" >>

BulkH ==
  <<
     "h01", "h02", "h03", "h04", "h05", "h06", "h07",
     "h08", "h09", "h10", "h11", "h12", "h13", "h14",
     "h15", "h16", "h17", "h18", "h19", "h20", "h21",
     "h22", "h23", "h24", "h25", "h26" >>

BulkNames ==
  <<
     "t01.flac", "t02.flac", "t03.flac", "t04.flac", "t05.flac", "t06.flac", "t07.flac",
     "t08.flac", "t09.flac", "t10.flac", "t11.flac", "t12.flac", "t13.flac", "t14.flac",
     "t15.flac", "t16.flac", "t17.flac", "t18.flac", "t19.flac", "t20.flac", "t21.flac",
     "t22.flac", "t23.flac", "t24.flac", "t25.flac", "t26.flac" >>

BulkGFiles == Range(BulkG)

BulkHFiles == Range(BulkH)

BulkFiles == BulkGFiles \cup BulkHFiles

Files == IF catalog = "bulk" THEN BulkFiles ELSE LibraryFiles

C(tok) == <<tok>>

IndexIn(s, x) == CHOOSE k \in DOMAIN s : s[k] = x

SourcePath(f) ==
  CASE f = "f1" -> <<C("Users"), C("ethansarif-kattan"), C("Music"), C("ALLDJ"), C("x.flac")>>
    [] f = "f2" -> <<C("Users"), C("ethansarif-kattan"), C("Music"), C("x.flac")>>
    [] f = "f3" -> <<C("Volumes"), C("T7"), C("y.flac")>>
    [] f \in BulkGFiles ->
         <<C("Users"), C("ethansarif-kattan"), C("Music"), C("ALLDJ"),
           C(BulkNames[IndexIn(BulkG, f)])>>
    [] f \in BulkHFiles ->
         <<C("Users"), C("ethansarif-kattan"), C("Music"), C(BulkNames[IndexIn(BulkH, f)])>>

SrcSize(f) == IF f = "f2" \/ (f \notin LibraryFiles /\ f \in BulkHFiles) THEN 1 ELSE MaxSize

\* --------------------------------------------------------- pure functions
SafeChar(c) ==
  CASE c = "/" -> <<"_">>
    [] c = "\\" -> <<"_">>
    [] c = ":" -> <<"-">>
    [] c = "<" -> <<"(">>
    [] c = ">" -> <<")">>
    [] c = "|" -> <<"-">>
    [] c = "?" -> <<>>
    [] c = "*" -> <<>>
    [] c = "\"" -> <<"'">>
    [] OTHER -> <<c>>

RECURSIVE LStrip(_)
LStrip(s) == IF s # <<>> /\ Head(s) = " " THEN LStrip(Tail(s)) ELSE s

RECURSIVE RStrip(_)
RStrip(s) == IF s # <<>> /\ Last(s) = " " THEN RStrip(Front(s)) ELSE s

Strip(s) == RStrip(LStrip(s))

NameLimit == 100

safe_filename(name) ==
  LET safe == Flatten([k \in DOMAIN name |-> SafeChar(name[k])])
      stripped == Strip(safe)
  IN SubSeq(stripped, 1, Min(Len(stripped), NameLimit))

Home == <<C("Users"), C("ethansarif-kattan")>>

base_paths ==
  << <<C("Users"), C("ethansarif-kattan"), C("Music"), C("ALLDJ")>>,
     <<C("Users"), C("ethansarif-kattan"), C("Music")>>,
     <<C("Volumes"), C("T7")>>,
     <<C("Volumes"), C("T7 Shield")>>,
     Home \o <<C("Music")>>,
     Home \o <<C("Desktop")>>,
     <<C("Users"), C("ethansarif-kattan")>> >>

\* The result is a path and whether it is absolute: the flattened form of a
\* source outside every base path is "<volume>/<name>" with an empty volume.
calculate_relative_path(source_path) ==
  LET hits == {b \in DOMAIN base_paths : IsPrefix(base_paths[b], source_path)}
  IN IF hits # {}
       THEN LET b == CHOOSE x \in hits : \A y \in hits : x <= y
            IN [abs |-> FALSE,
                parts |-> SubSeq(source_path, Len(base_paths[b]) + 1, Len(source_path))]
       ELSE IF Len(source_path) >= 1
              THEN [abs |-> safe_filename(<<>>) = <<>>,
                    parts |-> (IF safe_filename(<<>>) = <<>> THEN <<>> ELSE <<safe_filename(<<>>)>>)
                              \o <<Last(source_path)>>]
              ELSE [abs |-> FALSE, parts |-> <<>>]

usb_root == <<C("Volumes"), C("DJYING")>>

music_root == usb_root \o <<C("ALLDJ_MUSIC")>>

playlists_root == usb_root \o <<C("PLAYLISTS")>>

\* music_root / relative_path: an absolute right operand replaces the left one
dest_path(rel) == IF rel.abs THEN rel.parts ELSE music_root \o rel.parts

map_src_to_usb_tree(src_abs) == music_root \o src_abs

RECURSIVE CommonLen(_, _)
CommonLen(a, b) ==
  IF a # <<>> /\ b # <<>> /\ Head(a) = Head(b) THEN 1 + CommonLen(Tail(a), Tail(b)) ELSE 0

\* (variant of relpath that returns the target as it is)
relpath_absolute(target, start) == target

\* os.path.relpath(target, start) for absolute paths as components
relpath(target, start) ==
  LET k == CommonLen(target, start)
  IN [n \in 1..(Len(start) - k) |-> C("..")] \o SubSeq(target, k + 1, Len(target))

\* ------------------------------------------------------------ the catalog
\* Rows of djmdPlaylist in catalog order, the ids listed in djmdSmartList and
\* the rows of djmdSongPlaylist (ordered by TrackNo) of each node.
LibraryNodes ==
  << [ID |-> "10", Name |-> <<"S">>, ParentID |-> "root"],
     [ID |-> "1", Name |-> <<"A">>, ParentID |-> "10"],
     [ID |-> "2", Name |-> <<"B">>, ParentID |-> "10"],
     [ID |-> "3", Name |-> <<"C">>, ParentID |-> "root"],
     [ID |-> "4", Name |-> <<"D">>, ParentID |-> "root"] >>

BulkNodes == << [ID |-> "20", Name |-> <<"E">>, ParentID |-> "root"] >>

BulkRows ==
  [k \in 1..(2 * Len(BulkG)) |-> IF k % 2 = 1 THEN BulkG[(k + 1) \div 2] ELSE BulkH[k \div 2]]

GapNodes ==
  << [ID |-> "30", Name |-> <<"G", ":">>, ParentID |-> "root"],
     [ID |-> "31", Name |-> <<"G", "|">>, ParentID |-> "root"] >>

\* The row of djmdContent whose FileNameL and FileNameS are empty
Unnamed == "r0"

all_nodes ==
  IF catalog = "bulk" THEN BulkNodes ELSE IF catalog = "gaps" THEN GapNodes ELSE LibraryNodes

DjmdSmartList == IF catalog = "library" THEN {"4"} ELSE {}

PlaylistRows(playlist_id) ==
  CASE playlist_id = "1" -> <<"f1", "f2">>
    [] playlist_id = "2" -> <<"f2", "f3">>
    [] playlist_id = "3" -> <<"f3">>
    [] playlist_id = "4" -> <<"f1">>
    [] playlist_id = "10" -> <<"f3">>
    [] playlist_id = "20" -> BulkRows
    [] playlist_id = "30" -> <<"f1", Unnamed, "f3">>
    [] playlist_id = "31" -> <<Unnamed, "f2">>
    [] OTHER -> <<>>

LibraryNodeIds == {LibraryNodes[k].ID : k \in DOMAIN LibraryNodes}

BulkNodeIds == {BulkNodes[k].ID : k \in DOMAIN BulkNodes}

GapNodeIds == {GapNodes[k].ID : k \in DOMAIN GapNodes}

NodeIds ==
  IF catalog = "bulk" THEN BulkNodeIds ELSE IF catalog = "gaps" THEN GapNodeIds
  ELSE LibraryNodeIds

id_to_node(id) == all_nodes[CHOOSE k \in DOMAIN all_nodes : all_nodes[k].ID = id]

\* The parent walk of get_all_playlists: names from the node up, stopping at
\* "root", at an id that is not loaded and at an id already visited.
RECURSIVE path_parts(_, _)
path_parts(current_id, visited) ==
  IF current_id = "root" \/ current_id \in visited \/ current_id \notin NodeIds
    THEN <<>>
    ELSE <<id_to_node(current_id).Name>>
           \o path_parts(id_to_node(current_id).ParentID, visited \cup {current_id})

RECURSIVE Reverse(_)
Reverse(s) == IF s = <<>> THEN <<>> ELSE Reverse(Tail(s)) \o <<Head(s)>>

Sep == <<" ", "/", " ">>

RECURSIVE Join(_)
Join(parts) ==
  IF Len(parts) = 0 THEN <<>>
  ELSE IF Len(parts) = 1 THEN parts[1]
  ELSE parts[1] \o Sep \o Join(Tail(parts))

\* str.split(" / "): the pieces between the occurrences of the separator
RECURSIVE Split(_, _)
Split(s, acc) ==
  IF s = <<>> THEN <<acc>>
  ELSE IF IsPrefix(Sep, s) THEN <<acc>> \o Split(SubSeq(s, Len(Sep) + 1, Len(s)), <<>>)
  ELSE Split(Tail(s), Append(acc, Head(s)))

full_path(node) ==
  LET parts == Reverse(path_parts(node.ID, {}))
  IN IF parts # <<>> THEN Join(parts) ELSE node.Name

\* get_playlist_tracks, lines 408-413: normalize_rekordbox_path returns None
\* for an empty file name (lines 110-111) and the row is passed over
HasFileName(row) == row # Unnamed

\* get_playlist_tracks at the source file system exists: one TrackInfo per row
\* that has a file name
get_playlist_tracks(playlist_id, exists) ==
  LET rows == SelectSeq(PlaylistRows(playlist_id), HasFileName)
  IN [k \in DOMAIN rows |->
        [title |-> rows[k],
         original_path |-> rows[k],
         relative_path |-> calculate_relative_path(SourcePath(rows[k])),
         file_size |-> IF exists[rows[k]] THEN SrcSize(rows[k]) ELSE 0,
         exists |-> exists[rows[k]]]]

RECURSIVE SelectNodes(_, _, _)
SelectNodes(nodes, smart, exists) ==
  IF nodes = <<>> THEN <<>>
  ELSE LET node == Head(nodes)
           track_count == Len(get_playlist_tracks(node.ID, exists))
           is_folder == track_count = 0
           info == [id |-> node.ID, name |-> node.Name, full_path |-> full_path(node),
                    track_count |-> track_count]
       IN (IF node.ID \in smart \/ is_folder \/ ~(track_count > 0)
             THEN <<>> ELSE <<info>>)
          \o SelectNodes(Tail(nodes), smart, exists)

get_all_playlists(smart, exists) == SelectNodes(all_nodes, smart, exists)

\* copy_playlist, lines 463-465: the manifest file of a playlist
playlist_file(playlist) ==
  LET parts == Split(playlist.full_path, <<>>)
      safe_path == [k \in DOMAIN parts |-> safe_filename(parts[k])]
  IN playlists_root \o Front(safe_path) \o <<safe_filename(playlist.name) \o <<".m3u8">>>>

\* ------------------------------------------------------------------ state
VARIABLES
  prog,                 \* which script runs: "copier", "exporter" or "resumable"
  src_exists,           \* source file system: which source files exist
  usb_files,            \* files under the music subtree, temp files included
  manifests,            \* files under the manifests subtree
  state_files,          \* the state file of each script
  clock,                \* number of the current run, the timestamp it writes
  faults,               \* injected faults and interruptions so far
  pc,                   \* position of the running process, "idle" when none
  resume,               \* self.resume
  state,                \* self.state["playlists"]
  stats,                \* self.stats
  playlists,            \* the list run() iterates over
  i,                    \* index of the current playlist, from 1
  tracks,               \* copy_playlist: tracks
  j,                    \* index of the current track, from 1
  copied_tracks,        \* copy_playlist: copied_tracks / export: exported
  tracks_copied_count,  \* copy_playlist: tracks_copied_count / export: copied
  tracks_failed_count,  \* copy_playlist: tracks_failed_count
  usb_dir,              \* the destination root: whether it exists, what was made in it
  exit_status,          \* exit status of the last process, "none" while one runs
  smart_playlist_ids,   \* self.smart_playlist_ids
  call,                 \* a call of a path function: its arguments and its result
  dry_run,              \* ResumableExporter: self.dry_run
  hist                  \* history of the runs, read by the properties only

vars == <<prog, src_exists, usb_files, manifests, state_files, clock, faults, pc, resume,
          state, stats, playlists, i, tracks, j, copied_tracks, tracks_copied_count,
          tracks_failed_count, usb_dir, exit_status, smart_playlist_ids, call, dry_run,
          catalog, hist>>

env == <<usb_dir, exit_status, smart_playlist_ids, call>>

disk == <<usb_files, manifests, state_files>>

locals == <<tracks, j, copied_tracks, tracks_copied_count, tracks_failed_count>>

NoFile == [f |-> "none", n |-> 0]

NoState == [exists |-> FALSE]

TempPath(dest) == Front(dest) \o <<<<"tmp">> \o Last(dest)>>

CopierDest(f) == dest_path(calculate_relative_path(SourcePath(f)))

LibraryMusicPaths ==
  {CopierDest(f) : f \in LibraryFiles}
    \cup {map_src_to_usb_tree(SourcePath(f)) : f \in LibraryFiles}

BulkMusicPaths ==
  {CopierDest(f) : f \in BulkFiles}
    \cup {map_src_to_usb_tree(SourcePath(f)) : f \in BulkFiles}

MusicPaths == IF catalog = "bulk" THEN BulkMusicPaths ELSE LibraryMusicPaths

\* atomic_write_text, line 73: the temporary file NamedTemporaryFile makes
\* next to the state file
state_tmp == "tmp.rekordbox_copy_state.json"

\* A file whose text has been written only in part
PartialFile == [exists |-> TRUE, partial |-> TRUE]

Partial(file) == "partial" \in DOMAIN file

state_file(p) == IF p = "copier" THEN ".rekordbox_copy_state.json" ELSE ".alldj_export_state.json"

CopyStats ==
  [playlists_total |-> 0, playlists_completed |-> 0, playlists_skipped |-> 0,
   playlists_failed |-> 0, tracks_total |-> 0, tracks_copied |-> 0, tracks_skipped |-> 0,
   tracks_failed |-> 0, bytes_copied |-> 0]

EmptyMap == [x \in {} |-> 0]

Put(m, k, v) == [x \in DOMAIN m \cup {k} |-> IF x = k THEN v ELSE m[x]]

\* run_clean: no fault injected in the current run; run_end: how the last run
\* ended; last_ok: the last run was a resuming run that finished without fault;
\* prev_ok: so was the run before the current one, and the current one resumes
\* and has read the list of smart playlists;
\* prev_manifests: the manifests when the current run started; run_copies:
\* calls of atomic_copy_file that returned True in the current run;
\* done_at_start: ids the state file recorded completed when the current
\* resuming run started; visited: ids copy_playlist was called with in the
\* current run; skipped: those skipped as already completed; processed: those
\* whose tracks were enumerated; raised: those that an exception ended;
\* mfailed: those whose manifest write failed; mfail: ids whose manifest write
\* failed when a resuming run last processed them; must_retry: mfail when the
\* current resuming run started; io_failed: tracks of the current playlist whose copy
\* raised; already: the tracks of the current playlist found already copied;
\* cut_save: the process was last killed while save_state was writing;
\* before: the destination root and the files under it when the current run
\* of ResumableExporter started; prev_end: how the run before the current one
\* ended; copied_now: the source files atomic_copy_file has copied completely
\* in the current run; copied_before: those it had copied completely in the
\* runs before; recopied: those of copied_before that the current run, a
\* resuming run after an interrupted one, has copied again; start_stats:
\* self.stats when the loop of the current run started.
NoHist ==
  [run_clean |-> TRUE, run_end |-> "none", last_ok |-> FALSE, prev_ok |-> FALSE,
   prev_manifests |-> EmptyMap, run_copies |-> 0, done_at_start |-> {}, processed |-> {},
   visited |-> {}, skipped |-> {}, raised |-> {}, mfailed |-> {}, mfail |-> {},
   must_retry |-> {},
   io_failed |-> {}, already |-> 0, smart_failed |-> FALSE, cut_save |-> FALSE,
   before |-> <<>>, prev_end |-> "none", copied_now |-> {}, copied_before |-> {},
   recopied |-> {}, start_stats |-> CopyStats]

NoCall == [fn |-> "none"]

Init ==
  /\ prog \in {"copier", "exporter", "resumable"}
  /\ catalog = "library"
  /\ \E missing \in Files \cup {"none"} : src_exists = [f \in Files |-> f # missing]
  /\ usb_files = [d \in MusicPaths \cup {TempPath(d) : d \in MusicPaths} |-> NoFile]
  /\ manifests = EmptyMap
  /\ state_files = [n \in {state_file("copier"), state_file("exporter"), state_tmp} |-> NoState]
  /\ clock = 0
  /\ faults = 0
  /\ pc = "idle"
  /\ resume = TRUE
  /\ state = EmptyMap
  /\ stats = CopyStats
  /\ playlists = <<>>
  /\ i = 1
  /\ tracks = <<>>
  /\ j = 1
  /\ copied_tracks = <<>>
  /\ tracks_copied_count = 0
  /\ tracks_failed_count = 0
  /\ \E present \in BOOLEAN : usb_dir = [exists |-> present, made |-> {}]
  /\ exit_status = "none"
  /\ smart_playlist_ids = {}
  /\ call = NoCall
  /\ dry_run = FALSE
  /\ hist = NoHist

\* ------------------------------------------- RekordboxPlaylistCopier: state
\* (variant of atomic_write_text that opens the destination itself for writing)
atomic_write_text_in_place(files, dest) == [files EXCEPT ![dest] = PartialFile]

\* atomic_write_text, lines 72-75: the temporary file is open and the text is
\* being written to it; the destination is untouched
atomic_write_text(files, dest) == [files EXCEPT ![state_tmp] = PartialFile]

\* atomic_write_text, lines 75-77: the text is written in full, the file is
\* closed and renamed onto the destination
replace(files, dest, text) == [files EXCEPT ![state_tmp] = NoState, ![dest] = text]

\* (variant of load_state that never reads the file)
load_state_fresh(file, r) == [state |-> EmptyMap, stats |-> CopyStats]

\* (variant of load_state without the loop of lines 252-255)
load_state_without_stats(file, r) ==
  IF r /\ file.exists /\ ~Partial(file)
    THEN [state |-> file.playlists, stats |-> CopyStats]
    ELSE [state |-> EmptyMap, stats |-> CopyStats]

\* load_state: the playlists map and the stored stats of the state file; a
\* file that does not parse is logged and leaves the empty state (lines 257-258)
load_state(file, r) ==
  IF r /\ file.exists /\ ~Partial(file)
    THEN [state |-> file.playlists, stats |-> file.stats]
    ELSE [state |-> EmptyMap, stats |-> CopyStats]

\* (variant of save_state without the resume guard of lines 262-263)
save_state_always(file, r, st, sts, now) ==
  [exists |-> TRUE, playlists |-> st, stats |-> sts, timestamp |-> now]

\* save_state: the new content of the state file
save_state(file, r, st, sts, now) ==
  IF ~r THEN file
  ELSE [exists |-> TRUE, playlists |-> st, stats |-> sts, timestamp |-> now]

\* (variant of is_completed that never finds a completed record)
is_completed_never(st, id) == FALSE

\* copy_playlist, lines 449-450
is_completed(st, id) == id \in DOMAIN st /\ st[id].completed

CompletedIds(file) ==
  IF file.exists /\ ~Partial(file) THEN {id \in DOMAIN file.playlists : file.playlists[id].completed} ELSE {}

\* -------------------------------------------- RekordboxPlaylistCopier: run
Bump(sts, field) == [sts EXCEPT ![field] = @ + 1]

TestLimit == 5

\* (variant of root_missing without the check of lines 569-570)
root_missing_never(dir) == FALSE

\* run, line 569: the destination root does not exist
root_missing(dir) == ~dir.exists

\* log, lines 241-245: the line is appended to the log file under the root; a
\* failing open is ignored
log(dir) == IF dir.exists THEN [dir EXCEPT !.made = @ \cup {"copy_log.txt"}] ELSE dir

\* run, lines 573-574: mkdir(parents=True, exist_ok=True) of both subtrees
mkdirs(dir) == [exists |-> TRUE, made |-> dir.made \cup {"ALLDJ_MUSIC", "PLAYLISTS"}]

\* detect_smart_playlists: the ids of djmdSmartList, none when the query raises
detect_smart_playlists(query_ok) == IF query_ok THEN DjmdSmartList ELSE {}

StartHist(r, file) ==
  [hist EXCEPT !.run_clean = TRUE, !.run_end = "none",
               !.prev_ok = hist.last_ok /\ r,
               !.prev_manifests = manifests, !.run_copies = 0,
               !.done_at_start = IF r THEN CompletedIds(file) ELSE {},
               !.processed = {}, !.visited = {}, !.skipped = {},
               !.raised = {}, !.mfailed = {},
               !.must_retry = IF r THEN hist.mfail ELSE {},
               !.io_failed = {}, !.smart_failed = FALSE,
               !.prev_end = hist.run_end, !.copied_now = {},
               !.copied_before = @ \cup hist.copied_now, !.recopied = {}]

\* run, lines 569-570 and 611-613, and main, lines 678-680: the destination
\* root does not exist; the exception ends the process with status 1
RunNoRoot(r) ==
  /\ prog = "copier" /\ pc = "idle" /\ clock < MaxRuns
  /\ root_missing(usb_dir)
  /\ usb_dir' = log(usb_dir)
  /\ exit_status' = "1"
  /\ clock' = clock + 1
  /\ hist' = [StartHist(r, state_files[state_file("copier")]) EXCEPT
                !.run_end = "fatal", !.last_ok = FALSE]
  /\ UNCHANGED <<prog, catalog, dry_run, src_exists, disk, faults, pc, resume, state, stats, playlists, i,
                 locals, smart_playlist_ids, call>>

\* run, lines 573-578 and 582: connect_to_database raises (lines 293, 305) or
\* the rows of djmdPlaylist cannot be read (line 323); the exception ends the
\* process with status 1 (lines 611-613, main, lines 678-680)
RunCatalogFault(r) ==
  /\ prog = "copier" /\ pc = "idle" /\ clock < MaxRuns
  /\ ~root_missing(usb_dir)
  /\ faults < MaxFaults
  /\ faults' = faults + 1
  /\ usb_dir' = log(mkdirs(usb_dir))
  /\ exit_status' = "1"
  /\ clock' = clock + 1
  /\ hist' = [StartHist(r, state_files[state_file("copier")]) EXCEPT
                !.run_clean = FALSE, !.run_end = "fatal", !.last_ok = FALSE]
  /\ UNCHANGED <<prog, catalog, dry_run, src_exists, disk, pc, resume, state, stats, playlists, i, locals,
                 smart_playlist_ids, call>>

\* run, lines 565-589: the destination exists; load the state, read the
\* catalog; test mode keeps the first TestLimit playlists
RunStart(r) ==
  /\ prog = "copier" /\ pc = "idle" /\ clock < MaxRuns
  /\ ~root_missing(usb_dir)
  /\ \E test_mode \in BOOLEAN, smart_ok \in BOOLEAN :
     LET file == state_files[state_file("copier")]
         loaded == load_state(file, r)
         smart == detect_smart_playlists(smart_ok)
         found == get_all_playlists(smart, src_exists)
     IN /\ smart_ok \/ faults < MaxFaults
        /\ faults' = IF smart_ok THEN faults ELSE faults + 1
        /\ smart_playlist_ids' = smart
        /\ state' = loaded.state
        /\ stats' = [loaded.stats EXCEPT !.playlists_total = Len(found)]
        /\ playlists' = IF test_mode THEN SubSeq(found, 1, Min(Len(found), TestLimit))
                        ELSE found
        /\ hist' = [StartHist(r, file) EXCEPT !.run_clean = smart_ok,
                                              !.prev_ok = @ /\ smart_ok,
                                              !.smart_failed = ~smart_ok,
                                              !.start_stats = stats']
  /\ usb_dir' = log(mkdirs(usb_dir))
  /\ exit_status' = "none"
  /\ resume' = r
  /\ clock' = clock + 1
  /\ i' = 1
  /\ pc' = "loop"
  /\ UNCHANGED <<prog, catalog, dry_run, src_exists, disk, locals, call>>

\* run, lines 607-609: every playlist has been handled
RunFinish ==
  /\ prog = "copier" /\ pc = "loop" /\ i > Len(playlists)
  /\ pc' = "idle"
  /\ exit_status' = "0"
  /\ hist' = [hist EXCEPT !.run_end = "finished", !.last_ok = hist.run_clean /\ resume]
  /\ UNCHANGED <<prog, catalog, dry_run, src_exists, disk, clock, faults, resume, state, stats, playlists, i,
                 locals, usb_dir, smart_playlist_ids, call>>

\* copy_playlist, lines 448-453: the playlist is recorded as completed
CopyPlaylistSkip ==
  /\ prog = "copier" /\ pc = "loop" /\ i <= Len(playlists)
  /\ is_completed(state, playlists[i].id)
  /\ stats' = Bump(stats, "playlists_skipped")
  /\ i' = i + 1
  /\ hist' = [hist EXCEPT !.visited = @ \cup {playlists[i].id},
                          !.skipped = @ \cup {playlists[i].id}]
  /\ UNCHANGED <<prog, catalog, dry_run, src_exists, env, disk, clock, faults, pc, resume, state, playlists, locals>>

\* copy_playlist, lines 455-470: enumerate the tracks; a failing query is
\* logged by get_playlist_tracks and gives no tracks (lines 439-442), and run
\* counts the False that copy_playlist returns (lines 597-598)
CopyPlaylistBegin ==
  /\ prog = "copier" /\ pc = "loop" /\ i <= Len(playlists)
  /\ ~is_completed(state, playlists[i].id)
  /\ \E query_ok \in BOOLEAN :
       LET found == IF query_ok THEN get_playlist_tracks(playlists[i].id, src_exists) ELSE <<>>
       IN /\ query_ok \/ faults < MaxFaults
          /\ faults' = IF query_ok THEN faults ELSE faults + 1
          /\ hist' = [hist EXCEPT !.visited = @ \cup {playlists[i].id},
                                  !.run_clean = @ /\ query_ok,
                                  !.processed = IF found = <<>> THEN @ ELSE @ \cup {playlists[i].id},
                                  !.mfail = IF found # <<>> /\ resume THEN @ \ {playlists[i].id}
                                            ELSE @,
                                  !.io_failed = {},
                                  !.already = 0]
          /\ IF found = <<>>
               THEN /\ stats' = Bump(Bump(stats, "playlists_skipped"), "playlists_failed")
                    /\ i' = i + 1
                    /\ UNCHANGED <<pc, locals>>
               ELSE /\ tracks' = found
                    /\ j' = 1
                    /\ copied_tracks' = <<>>
                    /\ tracks_copied_count' = 0
                    /\ tracks_failed_count' = 0
                    /\ pc' = "track"
                    /\ UNCHANGED <<stats, i>>
  /\ UNCHANGED <<prog, catalog, dry_run, src_exists, env, disk, clock, resume, state, playlists>>

\* copy_playlist, lines 473-479: the source file of the track is missing
TrackMissing ==
  /\ prog = "copier" /\ pc = "track" /\ j <= Len(tracks)
  /\ ~tracks[j].exists
  /\ stats' = Bump(Bump(stats, "tracks_total"), "tracks_failed")
  /\ tracks_failed_count' = tracks_failed_count + 1
  /\ j' = j + 1
  /\ UNCHANGED <<prog, catalog, dry_run, src_exists, env, disk, clock, faults, pc, resume, state, playlists, i,
                 tracks, copied_tracks, tracks_copied_count, hist>>

\* (variant of already_copied that does not compare the sizes)
already_copied_any_size(files, exists, src, dest) == ~exists[src] \/ files[dest] # NoFile

\* atomic_copy_file, lines 81-88: TRUE when the call returns False without
\* copying: no source, or a destination of the source's size
already_copied(files, exists, src, dest) ==
  \/ ~exists[src]
  \/ (files[dest] # NoFile /\ SrcSize(src) = files[dest].n)

\* (variant of temp_file that streams into the destination itself)
temp_file_in_place(dest) == dest

\* atomic_copy_file, line 90: the file that the copy is streamed into
temp_file(dest) == TempPath(dest)

CurSrc == tracks[j].original_path

CurDest == dest_path(tracks[j].relative_path)

\* copy_playlist, lines 486 and 493-497: atomic_copy_file returned False
TrackExists ==
  /\ prog = "copier" /\ pc = "track" /\ j <= Len(tracks)
  /\ tracks[j].exists
  /\ already_copied(usb_files, src_exists, CurSrc, CurDest)
  /\ stats' = Bump(Bump(stats, "tracks_total"), "tracks_skipped")
  /\ copied_tracks' = Append(copied_tracks, [track |-> tracks[j], dest_path |-> CurDest])
  /\ j' = j + 1
  /\ hist' = [hist EXCEPT !.already = @ + 1]
  /\ UNCHANGED <<prog, catalog, dry_run, src_exists, env, disk, clock, faults, pc, resume, state, playlists, i,
                 tracks, tracks_copied_count, tracks_failed_count>>

\* atomic_copy_file, line 90: the temporary file is created, empty
CopyOpenTemp ==
  /\ prog = "copier" /\ pc = "track" /\ j <= Len(tracks)
  /\ tracks[j].exists
  /\ ~already_copied(usb_files, src_exists, CurSrc, CurDest)
  /\ usb_files' = [usb_files EXCEPT ![temp_file(CurDest)] = [f |-> CurSrc, n |-> 0]]
  /\ stats' = Bump(stats, "tracks_total")
  /\ pc' = "copying"
  /\ UNCHANGED <<prog, catalog, dry_run, src_exists, env, manifests, state_files, clock, faults, resume, state,
                 playlists, i, locals, hist>>

\* atomic_copy_file, lines 91-92: copyfileobj appends one chunk
CopyChunk ==
  /\ prog = "copier" /\ pc = "copying"
  /\ usb_files[temp_file(CurDest)].n < SrcSize(CurSrc)
  /\ usb_files' = [usb_files EXCEPT ![temp_file(CurDest)].n = @ + 1]
  /\ UNCHANGED <<prog, catalog, dry_run, src_exists, env, manifests, state_files, clock, faults, pc, resume, state,
                 stats, playlists, i, locals, hist>>

\* atomic_copy_file, lines 95-96, and copy_playlist, lines 488-497: the
\* temporary file is renamed onto the destination and the call returns True
CopyRename ==
  /\ prog = "copier" /\ pc = "copying"
  /\ usb_files[temp_file(CurDest)].n = SrcSize(CurSrc)
  /\ usb_files' = [d \in DOMAIN usb_files |->
                     IF d = CurDest THEN usb_files[temp_file(CurDest)]
                     ELSE IF d = temp_file(CurDest) THEN NoFile
                     ELSE usb_files[d]]
  /\ stats' = [stats EXCEPT !.tracks_copied = @ + 1, !.bytes_copied = @ + tracks[j].file_size]
  /\ tracks_copied_count' = tracks_copied_count + 1
  /\ copied_tracks' = Append(copied_tracks, [track |-> tracks[j], dest_path |-> CurDest])
  /\ j' = j + 1
  /\ pc' = "track"
  /\ hist' = [hist EXCEPT !.run_copies = @ + 1,
                          !.copied_now = @ \cup {CurSrc},
                          !.recopied = IF resume /\ hist.prev_end = "killed"
                                          /\ CurSrc \in hist.copied_before
                                         THEN @ \cup {CurSrc} ELSE @]
  /\ UNCHANGED <<prog, catalog, dry_run, src_exists, env, manifests, state_files, clock, faults, resume, state,
                 playlists, i, tracks, tracks_failed_count>>

\* (variant of CopyFault without the except clause of lines 499-502: the
\* error leaves copy_playlist and run counts the playlist as failed)
CopyFault_propagates ==
  /\ prog = "copier" /\ pc = "copying"
  /\ faults < MaxFaults
  /\ faults' = faults + 1
  /\ stats' = Bump(stats, "playlists_failed")
  /\ i' = i + 1
  /\ pc' = "loop"
  /\ tracks' = <<>>
  /\ j' = 1
  /\ copied_tracks' = <<>>
  /\ tracks_copied_count' = 0
  /\ tracks_failed_count' = 0
  /\ hist' = [hist EXCEPT !.run_clean = FALSE, !.io_failed = @ \cup {j}]
  /\ UNCHANGED <<prog, catalog, dry_run, src_exists, env, disk, clock, resume, state, playlists>>

\* copy_playlist, lines 499-502: the copy raised an I/O error; the temporary
\* file stays behind
CopyFault ==
  /\ prog = "copier" /\ pc = "copying"
  /\ faults < MaxFaults
  /\ faults' = faults + 1
  /\ stats' = Bump(stats, "tracks_failed")
  /\ tracks_failed_count' = tracks_failed_count + 1
  /\ j' = j + 1
  /\ pc' = "track"
  /\ hist' = [hist EXCEPT !.run_clean = FALSE, !.io_failed = @ \cup {j}]
  /\ UNCHANGED <<prog, catalog, dry_run, src_exists, env, disk, clock, resume, state, playlists, i, tracks,
                 copied_tracks, tracks_copied_count>>

\* create_m3u8_playlist: header with name, time of export and original path,
\* then one entry per copied track with the path relative to the manifest's
\* directory
create_m3u8_playlist(playlist, copied, file, now) ==
  [name |-> playlist.name, exported_on |-> now, original_path |-> playlist.full_path,
   entries |-> [k \in DOMAIN copied |->
                  [title |-> copied[k].track.title,
                   path |-> relpath(copied[k].dest_path, Front(file))]]]

\* (variant of playlist_record that counts every track that did not fail as
\* copied)
playlist_record_not_failed(playlist, trks, copied_count, failed_count) ==
  [completed |-> TRUE, name |-> playlist.name, tracks_total |-> Len(trks),
   tracks_copied |-> Len(trks) - failed_count, tracks_failed |-> failed_count,
   playlist_file |-> playlist_file(playlist)]

\* copy_playlist, lines 514-521: the record of a completed playlist
playlist_record(playlist, trks, copied_count, failed_count) ==
  [completed |-> TRUE, name |-> playlist.name, tracks_total |-> Len(trks),
   tracks_copied |-> copied_count, tracks_failed |-> failed_count,
   playlist_file |-> playlist_file(playlist)]

ResetLocals ==
  /\ tracks' = <<>>
  /\ j' = 1
  /\ copied_tracks' = <<>>
  /\ tracks_copied_count' = 0
  /\ tracks_failed_count' = 0

TracksDone == pc = "track" /\ j > Len(tracks)

\* copy_playlist, lines 505-508: the manifest is written (atomic_write_text)
ManifestWrite ==
  /\ prog = "copier" /\ TracksDone /\ copied_tracks # <<>>
  /\ manifests' = Put(manifests, playlist_file(playlists[i]),
                      create_m3u8_playlist(playlists[i], copied_tracks,
                                           playlist_file(playlists[i]), clock))
  /\ pc' = "update"
  /\ UNCHANGED <<prog, catalog, dry_run, src_exists, env, usb_files, state_files, clock, faults, resume, state, stats,
                 playlists, i, locals, hist>>

\* (variant of ManifestFault without the return of line 511: the failure is
\* logged and the playlist goes on to be recorded)
ManifestFault_falls_through ==
  /\ prog = "copier" /\ TracksDone /\ copied_tracks # <<>>
  /\ faults < MaxFaults
  /\ faults' = faults + 1
  /\ pc' = "update"
  /\ hist' = [hist EXCEPT !.run_clean = FALSE, !.mfailed = @ \cup {playlists[i].id},
                          !.mfail = IF resume THEN @ \cup {playlists[i].id} ELSE @]
  /\ UNCHANGED <<prog, catalog, dry_run, src_exists, env, disk, clock, resume, state, stats, playlists, i, locals>>

\* copy_playlist, lines 509-511, and run, lines 597-598: writing the manifest
\* raised; copy_playlist returns False
ManifestFault ==
  /\ prog = "copier" /\ TracksDone /\ copied_tracks # <<>>
  /\ faults < MaxFaults
  /\ faults' = faults + 1
  /\ stats' = Bump(stats, "playlists_failed")
  /\ i' = i + 1
  /\ pc' = "loop"
  /\ ResetLocals
  /\ hist' = [hist EXCEPT !.run_clean = FALSE, !.mfailed = @ \cup {playlists[i].id},
                          !.mfail = IF resume THEN @ \cup {playlists[i].id} ELSE @]
  /\ UNCHANGED <<prog, catalog, dry_run, src_exists, env, disk, clock, resume, state, playlists>>

\* copy_playlist, lines 513-526: record the playlist as completed and call
\* save_state, which returns at once without --resume (lines 262-263) and
\* otherwise starts writing the state (lines 264-269, atomic_write_text 72-75)
CompletePlaylist ==
  /\ prog = "copier"
  /\ pc = "update" \/ (TracksDone /\ copied_tracks = <<>>)
  /\ state' = Put(state, playlists[i].id,
                  playlist_record(playlists[i], tracks, tracks_copied_count,
                                  tracks_failed_count))
  /\ stats' = Bump(stats, "playlists_completed")
  /\ LET file == state_files[state_file("copier")]
         writes == save_state(file, resume, state', stats', clock) # file
     IN /\ state_files' = IF writes THEN atomic_write_text(state_files, state_file("copier"))
                          ELSE state_files
        /\ pc' = IF writes THEN "saving" ELSE "loop"
  /\ i' = i + 1
  /\ ResetLocals
  /\ UNCHANGED <<prog, catalog, dry_run, src_exists, env, usb_files, manifests, clock, faults, resume,
                 playlists, hist>>

\* save_state, line 269, and atomic_write_text, lines 75-77: the state is
\* written in full and renamed onto the state file
SaveState ==
  /\ prog = "copier" /\ pc = "saving"
  /\ state_files' = replace(state_files, state_file("copier"),
                            save_state(state_files[state_file("copier")], resume,
                                       state, stats, clock))
  /\ pc' = "loop"
  /\ UNCHANGED <<prog, catalog, dry_run, src_exists, env, usb_files, manifests, clock, faults, resume, state,
                 stats, playlists, i, locals, hist>>

\* save_state, lines 270-271: writing the state raised; the failure is logged
\* and the run goes on; the temporary file stays (delete=False, line 73)
SaveFault ==
  /\ prog = "copier" /\ pc = "saving"
  /\ faults < MaxFaults
  /\ faults' = faults + 1
  /\ pc' = "loop"
  /\ hist' = [hist EXCEPT !.run_clean = FALSE]
  /\ UNCHANGED <<prog, catalog, dry_run, src_exists, env, disk, clock, resume, state, stats, playlists, i,
                 locals>>

\* (variant of PlaylistRaise without the except clause of lines 599-601: the
\* exception ends the run)
PlaylistRaise_aborts ==
  /\ prog = "copier" /\ pc = "track"
  /\ faults < MaxFaults
  /\ faults' = faults + 1
  /\ pc' = "idle"
  /\ exit_status' = "1"
  /\ hist' = [hist EXCEPT !.run_clean = FALSE, !.run_end = "aborted",
                          !.raised = @ \cup {playlists[i].id}]
  /\ UNCHANGED <<prog, catalog, dry_run, src_exists, usb_dir, smart_playlist_ids, call, disk, clock, resume, state, stats, playlists, i, locals>>

\* run, lines 599-601: an exception left copy_playlist (raised outside the
\* try blocks of the track loop); it is logged and the loop goes on
PlaylistRaise ==
  /\ prog = "copier" /\ pc = "track"
  /\ faults < MaxFaults
  /\ faults' = faults + 1
  /\ stats' = Bump(stats, "playlists_failed")
  /\ i' = i + 1
  /\ pc' = "loop"
  /\ ResetLocals
  /\ hist' = [hist EXCEPT !.run_clean = FALSE, !.raised = @ \cup {playlists[i].id}]
  /\ UNCHANGED <<prog, catalog, dry_run, src_exists, env, disk, clock, resume, state, playlists>>

\* The process is interrupted or killed: what is on disk stays, the rest is lost
Kill ==
  /\ pc # "idle"
  /\ faults < MaxFaults
  /\ faults' = faults + 1
  /\ pc' = "idle"
  /\ resume' = TRUE
  /\ state' = EmptyMap
  /\ stats' = CopyStats
  /\ playlists' = <<>>
  /\ i' = 1
  /\ ResetLocals
  /\ exit_status' = "killed"
  /\ smart_playlist_ids' = {}
  /\ hist' = [NoHist EXCEPT !.run_end = "killed", !.mfail = hist.mfail,
                            !.cut_save = (pc = "saving"),
                            !.copied_before = hist.copied_before \cup hist.copied_now]
  /\ dry_run' = FALSE
  /\ UNCHANGED <<prog, catalog, src_exists, usb_dir, call, disk, clock>>

\* ------------------------------------------------------ RekordboxUSBExporter
Batch == 50

\* (variant of Eligible without the test of lines 240-241)
Eligible_all(nodes, smart) == [k \in DOMAIN nodes |-> [id |-> nodes[k].ID, name |-> nodes[k].Name]]

\* export, lines 237-243: every node that is not a smart playlist
RECURSIVE Eligible(_, _)
Eligible(nodes, smart) ==
  IF nodes = <<>> THEN <<>>
  ELSE (IF Head(nodes).ID \in smart THEN <<>>
        ELSE <<[id |-> Head(nodes).ID, name |-> Head(nodes).Name]>>)
       \o Eligible(Tail(nodes), smart)

\* playlist_tracks: title and source of every row
playlist_tracks(playlist_id) == PlaylistRows(playlist_id)

\* playlist_path and export, lines 261-263
m3u8_path(playlist_id) ==
  LET parts == Reverse(path_parts(playlist_id, {}))
  IN playlists_root \o Front(parts) \o <<Last(parts) \o <<".m3u8">>>>

build_m3u8(playlist_name, exported) ==
  [name |-> playlist_name,
   entries |-> [k \in DOMAIN exported |-> [title |-> exported[k].title,
                                           path |-> exported[k].dest_path]]]

\* (variant of status_completed that never finds a completed record)
status_completed_never(st, id) == FALSE

\* export, lines 256-257
status_completed(st, id) == id \in DOMAIN st /\ st[id].completed

\* (variant of x_checkpoint that never saves inside a playlist)
x_checkpoint_never(copied) == FALSE

\* export, line 291
x_checkpoint(copied) == copied % Batch = 0

x_save_state(file, r, st) == IF ~r THEN file ELSE [exists |-> TRUE, playlists |-> st]

\* export, lines 228-230: the destination root does not exist
XRunNoRoot(r) ==
  /\ prog = "exporter" /\ pc = "idle" /\ clock < MaxRuns
  /\ ~usb_dir.exists
  /\ exit_status' = "1"
  /\ clock' = clock + 1
  /\ hist' = [hist EXCEPT !.run_end = "fatal"]
  /\ UNCHANGED <<prog, catalog, dry_run, src_exists, disk, faults, pc, resume, state, stats, playlists, i,
                 locals, usb_dir, smart_playlist_ids, call>>

\* fetch_playlists, lines 139-144: the ids of djmdSmartList, none when the
\* query raises
x_smart_playlist_ids(query_ok) == IF query_ok THEN DjmdSmartList ELSE {}

\* export, lines 228-246
XRunStart(r) ==
  /\ prog = "exporter" /\ pc = "idle" /\ clock < MaxRuns
  /\ usb_dir.exists
  /\ \E smart_ok \in BOOLEAN :
       /\ smart_ok \/ faults < MaxFaults
       /\ faults' = IF smart_ok THEN faults ELSE faults + 1
       /\ smart_playlist_ids' = x_smart_playlist_ids(smart_ok)
       /\ playlists' = Eligible(all_nodes, smart_playlist_ids')
  /\ usb_dir' = mkdirs(usb_dir)
  /\ exit_status' = "none"
  /\ LET file == state_files[state_file("exporter")]
     IN /\ state' = IF r /\ file.exists THEN file.playlists ELSE EmptyMap
        /\ hist' = [hist EXCEPT !.run_clean = TRUE, !.run_end = "none",
                                !.done_at_start = IF r THEN CompletedIds(file) ELSE {},
                                !.processed = {}, !.visited = {}, !.skipped = {}]
  /\ resume' = r
  /\ clock' = clock + 1
  /\ i' = 1
  /\ pc' = "loop"
  /\ UNCHANGED <<prog, catalog, dry_run, src_exists, disk, stats, locals, call>>

\* export, lines 251-259: a node without rows, or a completed playlist
XSkip ==
  /\ prog = "exporter" /\ pc = "loop" /\ i <= Len(playlists)
  /\ playlist_tracks(playlists[i].id) = <<>> \/ status_completed(state, playlists[i].id)
  /\ i' = i + 1
  /\ hist' = [hist EXCEPT !.visited = @ \cup {playlists[i].id},
                          !.skipped = @ \cup {playlists[i].id}]
  /\ UNCHANGED <<prog, catalog, dry_run, src_exists, env, disk, clock, faults, pc, resume, state, stats, playlists,
                 locals>>

\* export, lines 261-275
XBegin ==
  /\ prog = "exporter" /\ pc = "loop" /\ i <= Len(playlists)
  /\ playlist_tracks(playlists[i].id) # <<>>
  /\ ~status_completed(state, playlists[i].id)
  /\ tracks' = playlist_tracks(playlists[i].id)
  /\ j' = 1
  /\ copied_tracks' = <<>>
  /\ tracks_copied_count' = 0
  /\ pc' = "track"
  /\ hist' = [hist EXCEPT !.visited = @ \cup {playlists[i].id},
                          !.processed = @ \cup {playlists[i].id}]
  /\ UNCHANGED <<prog, catalog, dry_run, src_exists, env, disk, clock, faults, resume, state, stats, playlists, i,
                 tracks_failed_count>>

\* export, lines 276-298: one track, then the checkpoint every Batch tracks
XTrack ==
  /\ prog = "exporter" /\ pc = "track" /\ j <= Len(tracks)
  /\ LET src == tracks[j]
         dest == map_src_to_usb_tree(SourcePath(src))
         same_size == usb_files[dest] # NoFile /\ usb_files[dest].n = SrcSize(src)
         copied == IF src_exists[src] THEN tracks_copied_count + 1 ELSE tracks_copied_count
         checkpoint == x_checkpoint(copied)
     IN /\ usb_files' = IF src_exists[src] /\ ~same_size
                          THEN [usb_files EXCEPT ![dest] = [f |-> src, n |-> SrcSize(src)]]
                          ELSE usb_files
        /\ copied_tracks' = IF src_exists[src]
                              THEN Append(copied_tracks, [title |-> src, dest_path |-> dest])
                              ELSE copied_tracks
        /\ tracks_copied_count' = copied
        /\ state' = IF checkpoint
                      THEN Put(state, playlists[i].id,
                               [completed |-> FALSE, tracks_total |-> Len(tracks),
                                tracks_exported |-> copied, name |-> playlists[i].name])
                      ELSE state
        /\ state_files' = IF checkpoint
                            THEN [state_files EXCEPT ![state_file("exporter")] =
                                    x_save_state(@, resume, state')]
                            ELSE state_files
  /\ j' = j + 1
  /\ UNCHANGED <<prog, catalog, dry_run, src_exists, env, manifests, clock, faults, pc, resume, stats, playlists, i,
                 tracks, tracks_failed_count, hist>>

\* export, lines 300-303
XManifest ==
  /\ prog = "exporter" /\ TracksDone /\ copied_tracks # <<>>
  /\ manifests' = Put(manifests, m3u8_path(playlists[i].id),
                      build_m3u8(playlists[i].name, copied_tracks))
  /\ pc' = "update"
  /\ UNCHANGED <<prog, catalog, dry_run, src_exists, env, usb_files, state_files, clock, faults, resume, state, stats,
                 playlists, i, locals, hist>>

\* export, lines 305-313
XComplete ==
  /\ prog = "exporter"
  /\ pc = "update" \/ (TracksDone /\ copied_tracks = <<>>)
  /\ state' = Put(state, playlists[i].id,
                  [completed |-> TRUE, tracks_total |-> Len(tracks),
                   tracks_exported |-> tracks_copied_count,
                   m3u8_path |-> m3u8_path(playlists[i].id), name |-> playlists[i].name])
  /\ state_files' = [state_files EXCEPT ![state_file("exporter")] =
                       x_save_state(@, resume, state')]
  /\ i' = i + 1
  /\ pc' = "loop"
  /\ ResetLocals
  /\ UNCHANGED <<prog, catalog, dry_run, src_exists, env, usb_files, manifests, clock, faults, resume, stats,
                 playlists, hist>>

\* export, lines 315-317
XRunFinish ==
  /\ prog = "exporter" /\ pc = "loop" /\ i > Len(playlists)
  /\ pc' = "idle"
  /\ exit_status' = "0"
  /\ hist' = [hist EXCEPT !.run_end = "finished"]
  /\ UNCHANGED <<prog, catalog, dry_run, src_exists, disk, clock, faults, resume, state, stats, playlists, i,
                 locals, usb_dir, smart_playlist_ids, call>>

\* ------------------------------------------------------- ResumableExporter
CheckpointEvery == 25

base_path == <<C("Users"), C("ethansarif-kattan"), C("Music"), C("ALLDJ")>>

\* music_collection_metadata.json: relative_path and assigned_tags of every
\* track; a tag is the sequence of the words its hyphens separate
LibraryMetadata ==
  << [title |-> "f1", relative_path |-> [abs |-> FALSE, parts |-> <<C("x.flac")>>],
      assigned_tags |-> {<<"nostalgic", "hit">>, <<"instant", "dancefloor">>}],
     [title |-> "f2", relative_path |-> [abs |-> FALSE, parts |-> <<C(".."), C("x.flac")>>],
      assigned_tags |-> {<<"nostalgic", "hit">>}],
     [title |-> "f3", relative_path |-> [abs |-> TRUE, parts |-> SourcePath("f3")],
      assigned_tags |-> {<<"peak", "time">>}] >>

\* The bulk collection: every track carries the tag nostalgic-hit; the files
\* under Music are referenced through ".."
BulkMetadata ==
  [k \in 1..(2 * Len(BulkG)) |->
     IF k <= Len(BulkG)
       THEN [title |-> BulkG[k],
             relative_path |-> [abs |-> FALSE, parts |-> <<C(BulkNames[k])>>],
             assigned_tags |-> {<<"nostalgic", "hit">>}]
       ELSE [title |-> BulkH[k - Len(BulkG)],
             relative_path |-> [abs |-> FALSE,
                                parts |-> <<C(".."), C(BulkNames[k - Len(BulkG)])>>],
             assigned_tags |-> {<<"nostalgic", "hit">>}]]

metadata_tracks == IF catalog = "bulk" THEN BulkMetadata ELSE LibraryMetadata

Capitalize(w) ==
  CASE w = "nostalgic" -> "Nostalgic"
    [] w = "hit" -> "Hit"
    [] w = "euphoric" -> "Euphoric"
    [] w = "melody" -> "Melody"
    [] w = "instant" -> "Instant"
    [] w = "dancefloor" -> "Dancefloor"
    [] OTHER -> w

\* humanize_tag: the capitalized words joined by a space
RECURSIVE humanize_tag(_)
humanize_tag(tag) ==
  IF tag = <<>> THEN <<>>
  ELSE IF Len(tag) = 1 THEN <<Capitalize(tag[1])>>
  ELSE <<Capitalize(tag[1]), " ">> \o humanize_tag(Tail(tag))

\* str.replace("_", " ")
Unscore(name) == [k \in DOMAIN name |-> IF name[k] = "_" THEN " " ELSE name[k]]

\* build_playlist_definitions: the categories in order, then the combos
build_playlist_definitions ==
  << [category_folder |-> C("01_DOPAMINE_SOURCE"),
      display_name |-> humanize_tag(<<"nostalgic", "hit">>),
      tags_all |-> {<<"nostalgic", "hit">>}],
     [category_folder |-> C("01_DOPAMINE_SOURCE"),
      display_name |-> humanize_tag(<<"euphoric", "melody">>),
      tags_all |-> {<<"euphoric", "melody">>}],
     [category_folder |-> C("12_COMBO_PLAYLISTS"),
      display_name |-> Unscore(<<"Nostalgic", "_", "Dancefloor">>),
      tags_all |-> {<<"nostalgic", "hit">>, <<"instant", "dancefloor">>}] >>

\* sanitize_filename: characters other than letters, digits, " ", "_" and "-"
\* become "_"; the pieces between runs of blanks are joined by "_"
RECURSIVE Pieces(_, _)
Pieces(s, acc) ==
  IF s = <<>> THEN (IF acc = <<>> THEN <<>> ELSE <<acc>>)
  ELSE IF Head(s) = " "
    THEN (IF acc = <<>> THEN <<>> ELSE <<acc>>) \o Pieces(Tail(s), <<>>)
  ELSE Pieces(Tail(s), Append(acc, Head(s)))

RECURSIVE Underscored(_)
Underscored(ps) ==
  IF ps = <<>> THEN <<>>
  ELSE IF Len(ps) = 1 THEN ps[1]
  ELSE ps[1] \o <<"_">> \o Underscored(Tail(ps))

sanitize_filename(name) ==
  LET safe == [k \in DOMAIN name |->
                 IF name[k] \in {"/", "\\", ":", "<", ">", "|", "?", "*", "\"", "."}
                   THEN "_" ELSE name[k]]
      joined == Underscored(Pieces(safe, <<>>))
  IN SubSeq(joined, 1, Min(Len(joined), 200))

playlist_key(pdef) == <<pdef.category_folder, pdef.display_name>>

\* filter_tracks_by_tags_all
filter_tracks_by_tags_all(tags_all) ==
  SelectSeq(metadata_tracks, LAMBDA tr : tags_all \subseteq tr.assigned_tags)

\* Path.resolve on components: ".." drops the component before it
RECURSIVE Resolved(_, _)
Resolved(parts, acc) ==
  IF parts = <<>> THEN acc
  ELSE IF Head(parts) = C("..")
    THEN Resolved(Tail(parts), IF acc = <<>> THEN acc ELSE Front(acc))
  ELSE Resolved(Tail(parts), Append(acc, Head(parts)))

\* export, line 381: (self.base_path / tr.relative_path).resolve()
src_abs_of(tr) ==
  Resolved(IF tr.relative_path.abs THEN tr.relative_path.parts
           ELSE base_path \o tr.relative_path.parts, <<>>)

\* The source file at a path, "none" when the model has no file there
FileAt(path) ==
  IF \E f \in Files : SourcePath(f) = path
    THEN CHOOSE f \in Files : SourcePath(f) = path
    ELSE "none"

\* copy_track_if_needed, lines 307-313: the destination of a source path
r_dest_abs(src_abs) ==
  music_root \o (IF IsPrefix(base_path, src_abs)
                   THEN SubSeq(src_abs, Len(base_path) + 1, Len(src_abs))
                   ELSE <<Last(src_abs)>>)

\* export, lines 399-402
r_m3u8_path(pdef) ==
  playlists_root \o <<pdef.category_folder, sanitize_filename(pdef.display_name) \o <<".m3u8">>>>

\* ensure_dirs, lines 292-294: both subtrees are made
ensure_dirs(dir) ==
  [exists |-> TRUE, made |-> dir.made \cup {<<C("ALLDJ_MUSIC")>>, <<C("PLAYLISTS")>>}]

\* export, lines 399-400: pl_dir.mkdir(parents=True, exist_ok=True)
mkdir_pl_dir(dir, pdef) ==
  [dir EXCEPT !.made = @ \cup {<<C("PLAYLISTS")>>, <<C("PLAYLISTS"), pdef.category_folder>>}]

\* save_state, lines 287-290
r_save_state(file, dry, st) == IF dry THEN file ELSE [exists |-> TRUE, playlists |-> st]

\* load_state, lines 278-285
r_load_state(file) == IF file.exists /\ ~Partial(file) THEN file.playlists ELSE EmptyMap

\* export, lines 359-360
r_completed(st, key) == key \in DOMAIN st /\ st[key].completed

\* export, lines 342-344: the destination root does not exist
RRunNoRoot(dry) ==
  /\ prog = "resumable" /\ pc = "idle" /\ clock < MaxRuns
  /\ ~usb_dir.exists
  /\ dry_run' = dry
  /\ exit_status' = "1"
  /\ clock' = clock + 1
  /\ hist' = [hist EXCEPT !.run_end = "fatal", !.before = <<usb_dir, disk>>]
  /\ UNCHANGED <<prog, catalog, src_exists, disk, faults, pc, resume, state, stats, playlists, i,
                 locals, usb_dir, smart_playlist_ids, call>>

\* export, lines 342-355: make the subtrees, load the state and the metadata,
\* keep the first limit definitions
RRunStart(dry) ==
  /\ prog = "resumable" /\ pc = "idle" /\ clock < MaxRuns
  /\ usb_dir.exists
  /\ dry_run' = dry
  /\ usb_dir' = ensure_dirs(usb_dir)
  /\ state' = r_load_state(state_files[state_file("resumable")])
  /\ \E limit \in {0, 2} :
       playlists' = IF limit > 0
                      THEN SubSeq(build_playlist_definitions, 1,
                                  Min(limit, Len(build_playlist_definitions)))
                      ELSE build_playlist_definitions
  /\ exit_status' = "none"
  /\ clock' = clock + 1
  /\ i' = 1
  /\ pc' = "loop"
  /\ hist' = [hist EXCEPT !.run_clean = TRUE, !.run_end = "none",
                          !.before = <<usb_dir, disk>>]
  /\ UNCHANGED <<prog, catalog, src_exists, disk, faults, resume, stats, locals,
                 smart_playlist_ids, call>>

\* export, lines 358-362: the playlist is recorded as completed
RSkip ==
  /\ prog = "resumable" /\ pc = "loop" /\ i <= Len(playlists)
  /\ r_completed(state, playlist_key(playlists[i]))
  /\ i' = i + 1
  /\ UNCHANGED <<prog, catalog, dry_run, src_exists, env, disk, clock, faults, pc, resume, state, stats,
                 playlists, locals, hist>>

\* export, lines 365-374: no track has the tags; the playlist is recorded as
\* completed
REmpty ==
  /\ prog = "resumable" /\ pc = "loop" /\ i <= Len(playlists)
  /\ ~r_completed(state, playlist_key(playlists[i]))
  /\ filter_tracks_by_tags_all(playlists[i].tags_all) = <<>>
  /\ state' = Put(state, playlist_key(playlists[i]),
                  [completed |-> TRUE, tracks_total |-> 0, tracks_exported |-> 0])
  /\ state_files' = [state_files EXCEPT ![state_file("resumable")] =
                       r_save_state(@, dry_run, state')]
  /\ i' = i + 1
  /\ UNCHANGED <<prog, catalog, dry_run, src_exists, env, usb_files, manifests, clock, faults, pc,
                 resume, stats, playlists, locals, hist>>

\* export, lines 365-378
RBegin ==
  /\ prog = "resumable" /\ pc = "loop" /\ i <= Len(playlists)
  /\ ~r_completed(state, playlist_key(playlists[i]))
  /\ filter_tracks_by_tags_all(playlists[i].tags_all) # <<>>
  /\ tracks' = filter_tracks_by_tags_all(playlists[i].tags_all)
  /\ j' = 1
  /\ copied_tracks' = <<>>
  /\ tracks_copied_count' = 0
  /\ pc' = "track"
  /\ UNCHANGED <<prog, catalog, dry_run, src_exists, env, disk, clock, faults, resume, state, stats,
                 playlists, i, tracks_failed_count, hist>>

\* export, lines 380-396, and copy_track_if_needed: one track, then the
\* checkpoint every CheckpointEvery tracks
RTrack ==
  /\ prog = "resumable" /\ pc = "track" /\ j <= Len(tracks)
  /\ LET src_abs == src_abs_of(tracks[j])
         src == FileAt(src_abs)
         present == src # "none" /\ src_exists[src]
         dest_abs == r_dest_abs(src_abs)
         same_size == present /\ usb_files[dest_abs] # NoFile
                      /\ usb_files[dest_abs].n = SrcSize(src)
         copied == IF present THEN tracks_copied_count + 1 ELSE tracks_copied_count
         checkpoint == present /\ ~dry_run /\ copied % CheckpointEvery = 0
     IN /\ usb_files' = IF present /\ ~same_size /\ ~dry_run
                          THEN [usb_files EXCEPT ![dest_abs] = [f |-> src, n |-> SrcSize(src)]]
                          ELSE usb_files
        /\ copied_tracks' = IF present
                              THEN Append(copied_tracks,
                                          [title |-> tracks[j].title, dest_path |-> dest_abs])
                              ELSE copied_tracks
        /\ tracks_copied_count' = copied
        /\ state' = IF checkpoint
                      THEN Put(state, playlist_key(playlists[i]),
                               [completed |-> FALSE, tracks_total |-> Len(tracks),
                                tracks_exported |-> copied])
                      ELSE state
        /\ state_files' = IF checkpoint
                            THEN [state_files EXCEPT ![state_file("resumable")] =
                                    r_save_state(@, dry_run, state')]
                            ELSE state_files
  /\ j' = j + 1
  /\ UNCHANGED <<prog, catalog, dry_run, src_exists, env, manifests, clock, faults, pc, resume, stats,
                 playlists, i, tracks, tracks_failed_count, hist>>

\* export, lines 398-407: make the category folder; write the manifest
\* unless the run is a dry run
RManifest ==
  /\ prog = "resumable" /\ TracksDone
  /\ usb_dir' = mkdir_pl_dir(usb_dir, playlists[i])
  /\ manifests' = IF dry_run THEN manifests
                  ELSE Put(manifests, r_m3u8_path(playlists[i]),
                           build_m3u8(playlists[i].display_name, copied_tracks))
  /\ pc' = "update"
  /\ UNCHANGED <<prog, catalog, dry_run, src_exists, exit_status, smart_playlist_ids, call, usb_files,
                 state_files, clock, faults, resume, state, stats, playlists, i, locals,
                 hist>>

\* export, lines 409-416: record the playlist as completed and save the state
RComplete ==
  /\ prog = "resumable" /\ pc = "update"
  /\ state' = Put(state, playlist_key(playlists[i]),
                  [completed |-> TRUE, tracks_total |-> Len(tracks),
                   tracks_exported |-> tracks_copied_count,
                   m3u8_path |-> r_m3u8_path(playlists[i])])
  /\ state_files' = [state_files EXCEPT ![state_file("resumable")] =
                       r_save_state(@, dry_run, state')]
  /\ i' = i + 1
  /\ pc' = "loop"
  /\ ResetLocals
  /\ UNCHANGED <<prog, catalog, dry_run, src_exists, env, usb_files, manifests, clock, faults, resume,
                 stats, playlists, hist>>

\* export, lines 418-420
RRunFinish ==
  /\ prog = "resumable" /\ pc = "loop" /\ i > Len(playlists)
  /\ pc' = "idle"
  /\ exit_status' = "0"
  /\ hist' = [hist EXCEPT !.run_end = "finished"]
  /\ UNCHANGED <<prog, catalog, dry_run, src_exists, disk, clock, faults, resume, state, stats,
                 playlists, i, locals, usb_dir, smart_playlist_ids, call>>

\* ------------------------------------------------------- path functions
\* Strings are sequences of characters; "%20" and "file://" stand for the
\* character runs they name.
MaxFolder == 6      \* characters of a folder reference
MaxName == 2        \* characters of a file reference

RECURSIVE SeqsUpTo(_, _)
SeqsUpTo(alphabet, n) ==
  IF n = 0 THEN {<<>>}
  ELSE LET shorter == SeqsUpTo(alphabet, n - 1)
       IN shorter \cup {Append(x, a) : x \in {y \in shorter : Len(y) = n - 1}, a \in alphabet}

EndsWith(s, suffix) ==
  Len(suffix) <= Len(s) /\ SubSeq(s, Len(s) - Len(suffix) + 1, Len(s)) = suffix

\* str.find: the first index at which sub occurs in s, 0 when it does not
Find(s, sub) ==
  LET at == {k \in 1..(Len(s) - Len(sub) + 1) : SubSeq(s, k, k + Len(sub) - 1) = sub}
  IN IF at = {} THEN 0 ELSE CHOOSE k \in at : \A l \in at : k <= l

\* str.replace(sub, ""): the occurrences are removed from left to right
RECURSIVE Remove(_, _)
Remove(s, sub) ==
  IF Find(s, sub) = 0 THEN s
  ELSE SubSeq(s, 1, Find(s, sub) - 1)
         \o Remove(SubSeq(s, Find(s, sub) + Len(sub), Len(s)), sub)

\* str.rstrip("/")
RECURSIVE RStripSlash(_)
RStripSlash(s) == IF s # <<>> /\ Last(s) = "/" THEN RStripSlash(Front(s)) ELSE s

\* urllib.parse.unquote: an escape becomes the character it encodes
unquote(s) == [k \in DOMAIN s |-> IF s[k] = "%20" THEN " " ELSE s[k]]

\* urlparse(folder).path of a file:// reference: what follows the host
url_path(folder) ==
  LET rest == Tail(folder)
      slash == Find(rest, <<"/">>)
  IN IF slash = 0 THEN <<>> ELSE SubSeq(rest, slash, Len(rest))

\* str.replace("\\", "/")
to_slashes(s) == [k \in DOMAIN s |-> IF s[k] = "\\" THEN "/" ELSE s[k]]

\* str(Path(s)): runs of slashes collapse (two leading slashes are kept), a
\* trailing slash is dropped, the empty string is "."
RECURSIVE Collapse(_)
Collapse(s) ==
  IF Len(s) < 2 THEN s
  ELSE IF s[1] = "/" /\ s[2] = "/" THEN Collapse(Tail(s))
  ELSE <<Head(s)>> \o Collapse(Tail(s))

RECURSIVE LeadingSlashes(_)
LeadingSlashes(s) == IF s # <<>> /\ Head(s) = "/" THEN 1 + LeadingSlashes(Tail(s)) ELSE 0

PathStr(s) ==
  LET body == Collapse(s)
      cut == IF Len(body) > 1 THEN RStripSlash(body) ELSE body
      kept == IF cut = <<>> /\ body # <<>> THEN <<"/">> ELSE cut
  IN IF s = <<>> THEN <<".">>
     ELSE IF LeadingSlashes(s) = 2 THEN <<"/">> \o kept
     ELSE kept

Cwd == <<"/", "w">>

RECURSIVE LStripSlash(_)
LStripSlash(s) == IF s # <<>> /\ Head(s) = "/" THEN LStripSlash(Tail(s)) ELSE s

\* Path.resolve() of an existing path without links: absolute, one leading slash
resolve(path) ==
  IF path = <<".">> THEN Cwd
  ELSE IF Head(path) = "/" THEN PathStr(<<"/">> \o LStripSlash(path))
  ELSE Cwd \o <<"/">> \o path

\* (variant of normalize_rekordbox_path that always joins folder and name)
normalize_joined(folder_in, filename_in, on_disk) ==
  IF Strip(filename_in) = <<>> THEN [none |-> TRUE]
  ELSE [none |-> FALSE,
        path |-> PathStr(Strip(folder_in) \o <<"/">> \o unquote(Strip(filename_in)))]

\* normalize_rekordbox_path; on_disk tells which candidate exists: the one
\* built first ("raw"), the one with the backslashes turned ("turned"), or
\* none. The result is None or the string of the path.
normalize_rekordbox_path(folder_in, filename_in, on_disk) ==
  LET folder == Strip(folder_in)
      stripped == Strip(filename_in)
      filename == unquote(stripped)
      decoded == IF IsPrefix(<<"file://">>, folder)
                   THEN unquote(IF url_path(folder) # <<>> THEN url_path(folder)
                                ELSE Tail(folder))
                   ELSE unquote(folder)
      folder_path == IF decoded # <<>> /\ Last(decoded) # "/" THEN Append(decoded, "/")
                     ELSE decoded
      inner == <<"/">> \o filename \o <<"/">>
      full ==
        IF folder_path = <<>> THEN filename
        ELSE IF EndsWith(folder_path, <<"/">> \o filename)
          THEN RStripSlash(folder_path)
        ELSE IF EndsWith(folder_path, filename \o <<"/">> \o filename)
          THEN RStripSlash(Remove(folder_path, <<"/">> \o filename))
        ELSE IF Find(folder_path, inner) # 0
          THEN SubSeq(folder_path, 1, Find(folder_path, inner) - 1) \o <<"/">> \o filename
        ELSE folder_path \o filename
      turn == on_disk # "raw" /\ Find(full, <<"\\">>) # 0
      final == IF turn THEN to_slashes(full) ELSE full
      exists == IF turn THEN on_disk = "turned" ELSE on_disk = "raw"
  IN IF stripped = <<>> THEN [none |-> TRUE]
     ELSE [none |-> FALSE,
           path |-> IF exists THEN resolve(PathStr(final)) ELSE PathStr(final)]

\* os.path.normpath(os.path.join(start, line)) for paths as components
RECURSIVE join_norm(_, _)
join_norm(start, line) ==
  IF line = <<>> THEN start
  ELSE IF Head(line) = C("..") THEN join_norm(IF start = <<>> THEN <<>> ELSE Front(start), Tail(line))
  ELSE join_norm(Append(start, Head(line)), Tail(line))

MaxDepth == 2       \* directories below the manifests and the music subtree

\* Folder references of at most n characters, and some with a URL scheme, an
\* escape, blanks around and a backslash
Folders(n) ==
  SeqsUpTo({"/", "m", "s"}, n)
    \cup {<<"file://", "h", "/", "m">>, <<"file://", "h">>, <<"/", "m", "%20">>,
          <<" ", "/", "m", "/", " ">>, <<"m", "\\", "s">>}

\* File references of at most n characters, and some more
Names(n) ==
  SeqsUpTo({"s", " "}, n) \cup {<<"m">>, <<"s", "m">>, <<"s", "%20", "s">>}

NormalizeInputs(nf, nn) ==
  {[fn |-> "args", op |-> "normalize", folder |-> f, filename |-> n, on_disk |-> d] :
     f \in Folders(nf), n \in Names(nn), d \in {"none", "raw"}}
    \cup {[fn |-> "args", op |-> "normalize", folder |-> <<"m", "\\", "s">>, filename |-> n,
           on_disk |-> "turned"] : n \in Names(nn)}

ManifestDirs(n) == {playlists_root \o d : d \in SeqsUpTo({C("S"), C("A")}, n)}

TrackPaths(n) ==
  {music_root \o d \o <<name>> : d \in SeqsUpTo({C("S"), C("A")}, n),
                                 name \in {C("x.flac"), C("S")}}

RelpathInputs(n) ==
  {[fn |-> "args", op |-> "relpath", dir |-> d, track |-> t] :
     d \in ManifestDirs(n), t \in TrackPaths(n)}

\* A call of a path function, with arguments of bounded length
PathInit ==
  /\ prog = "paths"
  /\ catalog = "library"
  /\ src_exists = [f \in Files |-> TRUE]
  /\ usb_files = [d \in MusicPaths \cup {TempPath(d) : d \in MusicPaths} |-> NoFile]
  /\ manifests = EmptyMap
  /\ state_files = [n \in {state_file("copier"), state_file("exporter"), state_tmp} |-> NoState]
  /\ clock = 0
  /\ faults = 0
  /\ pc = "idle"
  /\ resume = TRUE
  /\ state = EmptyMap
  /\ stats = CopyStats
  /\ playlists = <<>>
  /\ i = 1
  /\ tracks = <<>>
  /\ j = 1
  /\ copied_tracks = <<>>
  /\ tracks_copied_count = 0
  /\ tracks_failed_count = 0
  /\ usb_dir = [exists |-> TRUE, made |-> {}]
  /\ exit_status = "none"
  /\ smart_playlist_ids = {}
  /\ call \in NormalizeInputs(MaxFolder, MaxName) \cup RelpathInputs(MaxDepth)
  /\ dry_run = FALSE
  /\ hist = NoHist

\* get_playlist_tracks, line 411: the path of a row of djmdContent
Normalize ==
  /\ prog = "paths" /\ call.fn = "args" /\ call.op = "normalize"
  /\ call' = [fn |-> "normalize", folder |-> call.folder, filename |-> call.filename,
              on_disk |-> call.on_disk,
              result |-> normalize_rekordbox_path(call.folder, call.filename, call.on_disk)]
  /\ UNCHANGED <<prog, catalog, dry_run, src_exists, disk, clock, faults, pc, resume, state, stats, playlists,
                 i, locals, usb_dir, exit_status, smart_playlist_ids, hist>>

\* create_m3u8_playlist, lines 538-543: the manifest of one copied track
RelativeLine ==
  /\ prog = "paths" /\ call.fn = "args" /\ call.op = "relpath"
  /\ call' = [fn |-> "relpath", dir |-> call.dir, track |-> call.track,
              manifest |-> create_m3u8_playlist(
                             [name |-> <<"P">>, full_path |-> <<"P">>],
                             <<[track |-> [title |-> "f1"], dest_path |-> call.track]>>,
                             call.dir \o <<C("P.m3u8")>>, 1)]
  /\ UNCHANGED <<prog, catalog, dry_run, src_exists, disk, clock, faults, pc, resume, state, stats, playlists,
                 i, locals, usb_dir, exit_status, smart_playlist_ids, hist>>

PathNext == Normalize \/ RelativeLine

PathSpec == PathInit /\ [][PathNext]_vars

\* ----------------------------------------------------------- the parent walk
\* The walk from a node up its parents, one loop iteration a step, over every
\* parent relation of MaxNodes nodes: ParentID is a loaded id, "root", an id
\* that is not loaded ("gone") or no value ("none"). A node's name is its id.
MaxNodes == 3       \* nodes of a parent relation

WalkNames == <<"n1", "n2", "n3", "n4", "n5">>

WalkIds == {WalkNames[k] : k \in 1..MaxNodes}

ParentValues == WalkIds \cup {"root", "gone", "none"}

WalkInputs ==
  {[fn |-> f, parent |-> p, node_id |-> n, current_id |-> n, visited |-> {},
    path_parts |-> <<>>, order |-> <<>>, done |-> FALSE] :
     f \in {"get_all_playlists", "playlist_path"},
     p \in [WalkIds -> ParentValues], n \in WalkIds}

WalkInit ==
  /\ prog = "walk"
  /\ catalog = "library"
  /\ src_exists = [f \in Files |-> TRUE]
  /\ usb_files = [d \in MusicPaths \cup {TempPath(d) : d \in MusicPaths} |-> NoFile]
  /\ manifests = EmptyMap
  /\ state_files = [n \in {state_file("copier"), state_file("exporter"), state_tmp} |-> NoState]
  /\ clock = 0
  /\ faults = 0
  /\ pc = "idle"
  /\ resume = TRUE
  /\ state = EmptyMap
  /\ stats = CopyStats
  /\ playlists = <<>>
  /\ i = 1
  /\ tracks = <<>>
  /\ j = 1
  /\ copied_tracks = <<>>
  /\ tracks_copied_count = 0
  /\ tracks_failed_count = 0
  /\ usb_dir = [exists |-> TRUE, made |-> {}]
  /\ exit_status = "none"
  /\ smart_playlist_ids = {}
  /\ call \in WalkInputs
  /\ dry_run = FALSE
  /\ hist = NoHist

\* (variant of unvisited without the visited set)
unvisited_always(current_id, visited) == TRUE

\* get_all_playlists, line 340, and playlist_path, line 192: "not in visited"
unvisited(current_id, visited) == current_id \notin visited

\* get_all_playlists, lines 340-351: the loop test and one iteration; the
\* parts are reversed when the loop is left
WalkStep ==
  /\ prog = "walk" /\ call.fn = "get_all_playlists" /\ ~call.done
  /\ LET cur == call.current_id
         continues == cur # "none" /\ cur # "root" /\ unvisited(cur, call.visited)
     IN call' = IF continues /\ cur \in WalkIds
                  THEN [call EXCEPT !.visited = @ \cup {cur},
                                    !.order = Append(@, cur),
                                    !.path_parts = Append(@, cur),
                                    !.current_id = call.parent[cur]]
                ELSE IF continues
                  THEN [call EXCEPT !.visited = @ \cup {cur},
                                    !.order = Append(@, cur),
                                    !.path_parts = Reverse(@),
                                    !.done = TRUE]
                ELSE [call EXCEPT !.path_parts = Reverse(@), !.done = TRUE]
  /\ UNCHANGED <<prog, catalog, dry_run, src_exists, disk, clock, faults, pc, resume, state, stats, playlists,
                 i, locals, usb_dir, exit_status, smart_playlist_ids, hist>>

\* playlist_path, lines 191-198: the loop test and one iteration; cur is
\* "none" when id_to_node.get finds no node
PlaylistPathStep ==
  /\ prog = "walk" /\ call.fn = "playlist_path" /\ ~call.done
  /\ LET cur == call.current_id
         continues == cur # "none" /\ unvisited(cur, call.visited)
         parent_id == call.parent[cur]
     IN call' = IF continues /\ parent_id \in {"none", "root"}
                  THEN [call EXCEPT !.visited = @ \cup {cur},
                                    !.order = Append(@, cur),
                                    !.path_parts = Reverse(Append(@, cur)),
                                    !.done = TRUE]
                ELSE IF continues
                  THEN [call EXCEPT !.visited = @ \cup {cur},
                                    !.order = Append(@, cur),
                                    !.path_parts = Append(@, cur),
                                    !.current_id = IF parent_id \in WalkIds
                                                     THEN parent_id ELSE "none"]
                ELSE [call EXCEPT !.path_parts = Reverse(@), !.done = TRUE]
  /\ UNCHANGED <<prog, catalog, dry_run, src_exists, disk, clock, faults, pc, resume, state, stats, playlists,
                 i, locals, usb_dir, exit_status, smart_playlist_ids, hist>>

WalkNext == WalkStep \/ PlaylistPathStep

\* A loop of a sequential program goes on until its test fails
WalkSpec == WalkInit /\ [][WalkNext]_vars /\ WF_vars(WalkNext)

\* ------------------------------------------------------------ specification
Next ==
  \/ \E r \in BOOLEAN : RunNoRoot(r)
  \/ \E r \in BOOLEAN : RunCatalogFault(r)
  \/ \E r \in BOOLEAN : RunStart(r)
  \/ RunFinish
  \/ CopyPlaylistSkip
  \/ CopyPlaylistBegin
  \/ TrackMissing
  \/ TrackExists
  \/ CopyOpenTemp
  \/ CopyChunk
  \/ CopyRename
  \/ CopyFault
  \/ ManifestWrite
  \/ ManifestFault
  \/ CompletePlaylist
  \/ SaveState
  \/ SaveFault
  \/ PlaylistRaise
  \/ Kill
  \/ \E r \in BOOLEAN : XRunNoRoot(r)
  \/ \E r \in BOOLEAN : XRunStart(r)
  \/ XSkip
  \/ XBegin
  \/ XTrack
  \/ XManifest
  \/ XComplete
  \/ XRunFinish
  \/ \E dry \in BOOLEAN : RRunNoRoot(dry)
  \/ \E dry \in BOOLEAN : RRunStart(dry)
  \/ RSkip
  \/ REmpty
  \/ RBegin
  \/ RTrack
  \/ RManifest
  \/ RComplete
  \/ RRunFinish

Spec == Init /\ [][Next]_vars

\* ------------------------------------------- the copier on the bulk collection
\* The copier, resuming, on the bulk collection, with interruptions as the
\* only faults
BulkInit ==
  /\ prog = "copier"
  /\ catalog = "bulk"
  /\ src_exists = [f \in Files |-> TRUE]
  /\ usb_files = [d \in MusicPaths \cup {TempPath(d) : d \in MusicPaths} |-> NoFile]
  /\ manifests = EmptyMap
  /\ state_files = [n \in {state_file("copier"), state_file("exporter"), state_tmp} |-> NoState]
  /\ clock = 0
  /\ faults = 0
  /\ pc = "idle"
  /\ resume = TRUE
  /\ state = EmptyMap
  /\ stats = CopyStats
  /\ playlists = <<>>
  /\ i = 1
  /\ tracks = <<>>
  /\ j = 1
  /\ copied_tracks = <<>>
  /\ tracks_copied_count = 0
  /\ tracks_failed_count = 0
  /\ usb_dir = [exists |-> TRUE, made |-> {}]
  /\ exit_status = "none"
  /\ smart_playlist_ids = {}
  /\ call = NoCall
  /\ dry_run = FALSE
  /\ hist = NoHist

BulkNext ==
  \/ RunStart(TRUE)
  \/ RunFinish
  \/ CopyPlaylistSkip
  \/ CopyPlaylistBegin
  \/ TrackExists
  \/ CopyOpenTemp
  \/ CopyChunk
  \/ CopyRename
  \/ ManifestWrite
  \/ CompletePlaylist
  \/ SaveState
  \/ Kill

BulkSpec == BulkInit /\ [][BulkNext]_vars

\* ------------------------------------ the exporters on the bulk collection
\* RekordboxUSBExporter and ResumableExporter on the bulk collection, whose
\* playlist is longer than a batch; the first file may be missing
BatchInit ==
  /\ prog \in {"exporter", "resumable"}
  /\ catalog = "bulk"
  /\ \E missing \in {"none", BulkG[1]} : src_exists = [f \in Files |-> f # missing]
  /\ usb_files = [d \in MusicPaths \cup {TempPath(d) : d \in MusicPaths} |-> NoFile]
  /\ manifests = EmptyMap
  /\ state_files = [n \in {state_file("copier"), state_file("exporter"), state_tmp} |-> NoState]
  /\ clock = 0
  /\ faults = 0
  /\ pc = "idle"
  /\ resume = TRUE
  /\ state = EmptyMap
  /\ stats = CopyStats
  /\ playlists = <<>>
  /\ i = 1
  /\ tracks = <<>>
  /\ j = 1
  /\ copied_tracks = <<>>
  /\ tracks_copied_count = 0
  /\ tracks_failed_count = 0
  /\ usb_dir = [exists |-> TRUE, made |-> {}]
  /\ exit_status = "none"
  /\ smart_playlist_ids = {}
  /\ call = NoCall
  /\ dry_run = FALSE
  /\ hist = NoHist

BatchNext ==
  \/ \E r \in BOOLEAN : XRunStart(r)
  \/ XSkip
  \/ XBegin
  \/ XTrack
  \/ XManifest
  \/ XComplete
  \/ XRunFinish
  \/ \E dry \in BOOLEAN : RRunStart(dry)
  \/ RSkip
  \/ REmpty
  \/ RBegin
  \/ RTrack
  \/ RManifest
  \/ RComplete
  \/ RRunFinish

BatchSpec == BatchInit /\ [][BatchNext]_vars

\* ------------------------------------------ the copier on the gaps catalog
RowsInit ==
  /\ prog = "copier"
  /\ catalog = "gaps"
  /\ \E missing \in {"none", "f3"} : src_exists = [f \in Files |-> f # missing]
  /\ usb_files = [d \in MusicPaths \cup {TempPath(d) : d \in MusicPaths} |-> NoFile]
  /\ manifests = EmptyMap
  /\ state_files = [n \in {state_file("copier"), state_file("exporter"), state_tmp} |-> NoState]
  /\ clock = 0
  /\ faults = 0
  /\ pc = "idle"
  /\ resume = TRUE
  /\ state = EmptyMap
  /\ stats = CopyStats
  /\ playlists = <<>>
  /\ i = 1
  /\ tracks = <<>>
  /\ j = 1
  /\ copied_tracks = <<>>
  /\ tracks_copied_count = 0
  /\ tracks_failed_count = 0
  /\ usb_dir = [exists |-> TRUE, made |-> {}]
  /\ exit_status = "none"
  /\ smart_playlist_ids = {}
  /\ call = NoCall
  /\ dry_run = FALSE
  /\ hist = NoHist

RowsNext ==
  \/ \E r \in BOOLEAN : RunStart(r)
  \/ RunFinish
  \/ CopyPlaylistSkip
  \/ CopyPlaylistBegin
  \/ TrackMissing
  \/ TrackExists
  \/ CopyOpenTemp
  \/ CopyChunk
  \/ CopyRename
  \/ ManifestWrite
  \/ CompletePlaylist
  \/ SaveState

RowsSpec == RowsInit /\ [][RowsNext]_vars

\* ------------------------------- the copier beside a process removing files
\* Another process removes a source file while the copier runs: the exists
\* flag of get_playlist_tracks (lines 419-426) is of the time of enumeration,
\* atomic_copy_file looks again (lines 81-82)
SourceRemoved ==
  /\ prog = "copier" /\ pc \in {"loop", "track"}
  /\ faults < MaxFaults
  /\ faults' = faults + 1
  /\ \E f \in Files :
       /\ src_exists[f]
       /\ src_exists' = [src_exists EXCEPT ![f] = FALSE]
  /\ UNCHANGED <<prog, catalog, dry_run, env, disk, clock, pc, resume, state, stats, playlists, i,
                 locals, hist>>

RaceInit == Init /\ prog = "copier" /\ usb_dir.exists

RaceNext ==
  \/ \E r \in BOOLEAN : RunStart(r)
  \/ RunFinish
  \/ CopyPlaylistSkip
  \/ CopyPlaylistBegin
  \/ TrackMissing
  \/ TrackExists
  \/ CopyOpenTemp
  \/ CopyChunk
  \/ CopyRename
  \/ ManifestWrite
  \/ CompletePlaylist
  \/ SaveState
  \/ SourceRemoved

RaceSpec == RaceInit /\ [][RaceNext]_vars

\* ------------------------------------------------------------- properties
ExportableIds ==
  LET found == get_all_playlists(smart_playlist_ids, src_exists)
  IN {found[k].id : k \in DOMAIN found}

CopierFile == state_files[state_file("copier")]

ExporterFile == state_files[state_file("exporter")]

\* C1: whatever the point at which the copy is killed or fails, every file
\* under a final name of the music subtree is a complete copy of its source:
\* a destination path is absent or has the full size of the source it was
\* copied from, never a partial size.
DestinationNeverPartial ==
  \A d \in MusicPaths : usb_files[d] # NoFile => usb_files[d].n = SrcSize(usb_files[d].f)

\* C1 witness: the process was killed when the temporary file was completely
\* written and not yet renamed; the destination does not exist.
KilledBeforeRename ==
  /\ prog = "copier" /\ pc = "idle" /\ hist.run_end = "killed"
  /\ \E d \in MusicPaths :
       /\ usb_files[TempPath(d)] # NoFile
       /\ usb_files[TempPath(d)].n = SrcSize(usb_files[TempPath(d)].f)
       /\ usb_files[d] = NoFile

\* C2: when a resuming run finished without fault and the next run resumes
\* too and reads the same catalog, that next run copies no file and every
\* manifest stays what it was when the run started.
SecondRunCopiesNothing ==
  (prog = "copier" /\ hist.prev_ok) =>
    (hist.run_copies = 0 /\ manifests = hist.prev_manifests)

\* C2 witness: the second of two resuming runs has finished, after a first
\* run that copied files and wrote manifests, having skipped every playlist.
SecondRunFinished ==
  /\ prog = "copier" /\ hist.prev_ok /\ hist.run_end = "finished"
  /\ stats.tracks_copied > 0 /\ DOMAIN manifests # {}
  /\ hist.skipped = ExportableIds

CompletedStaysCompleted ==
  [][\A n \in DOMAIN state_files :
       CompletedIds(state_files[n]) \subseteq CompletedIds(state_files'[n])]_vars

\* C4 witness: in a later run of the exporter the state file holds an
\* in-progress checkpoint next to the record of a playlist that was completed
\* before and skipped in this run.
CheckpointBesideCompleted ==
  /\ prog = "exporter" /\ clock >= 2 /\ ExporterFile.exists
  /\ hist.skipped \cap CompletedIds(ExporterFile) # {}
  /\ \E id \in DOMAIN ExporterFile.playlists : ~ExporterFile.playlists[id].completed

AtomicCopyContract ==
  [][(/\ prog = "copier" /\ pc \in {"track", "copying"} /\ j <= Len(tracks)
      /\ tracks[j].exists /\ src_exists[CurSrc]
      /\ j' = j + 1 /\ pc' = "track" /\ faults' = faults)
     => IF usb_files[CurDest] # NoFile /\ usb_files[CurDest].n = SrcSize(CurSrc)
          THEN /\ stats'.tracks_skipped = stats.tracks_skipped + 1
               /\ stats'.tracks_copied = stats.tracks_copied
               /\ usb_files' = usb_files
          ELSE /\ stats'.tracks_copied = stats.tracks_copied + 1
               /\ stats'.tracks_skipped = stats.tracks_skipped
               /\ usb_files'[CurDest] = [f |-> CurSrc, n |-> SrcSize(CurSrc)]]_vars

\* C6 witness: in a first run a call has returned False for a destination
\* of the source's size, after calls that returned True, one of which
\* replaced a destination of another size.
CopiedAndSkipped ==
  /\ prog = "copier" /\ pc = "track" /\ faults = 0 /\ clock = 1
  /\ hist.already > 0 /\ stats.tracks_skipped > 0
  /\ stats.tracks_copied > Cardinality({CopierDest(f) : f \in Files})

\* C7 (as stated): a playlist completed with n tracks of which m are missing,
\* 0 < m < n, and no copy error is recorded with tracks_copied = n - m and
\* tracks_failed = m, and its manifest lists exactly the n - m existing tracks.
Missing(trks) == {k \in DOMAIN trks : ~trks[k].exists}

Titles(entries) == [k \in DOMAIN entries |-> entries[k].title]

ExistingTitles(trks) == Titles(SelectSeq(trks, LAMBDA t : t.exists))

PartialCase ==
  /\ prog = "copier" /\ pc \in {"track", "update"}
  /\ stats'.playlists_completed = stats.playlists_completed + 1
  /\ hist.io_failed = {}
  /\ Cardinality(Missing(tracks)) > 0 /\ Cardinality(Missing(tracks)) < Len(tracks)

ManifestFailureRetried ==
  /\ [][(hist.mfailed # hist'.mfailed /\ hist.mfailed \subseteq hist'.mfailed) =>
          /\ stats'.playlists_failed = stats.playlists_failed + 1
          /\ stats'.playlists_completed = stats.playlists_completed
          /\ state' = state /\ state_files' = state_files
          /\ pc' = "loop" /\ i' = i + 1
          /\ \A id \in hist'.mfailed \ hist.mfailed : ~is_completed(state', id)]_vars
  /\ [](prog = "copier" => hist.mfail \cap CompletedIds(CopierFile) = {})
  /\ []((prog = "copier" /\ resume) => hist.must_retry \cap hist.skipped = {})

\* C8 witness: a resuming run enumerates the tracks of a playlist whose
\* manifest write failed in the run before.
FailedManifestRetried ==
  /\ prog = "copier" /\ resume /\ pc # "idle"
  /\ hist.must_retry \cap hist.processed # {}

\* C9: the step in which the copy of a track raises adds one to the failure
\* counters and goes on to the next track of the same playlist, the copied
\* tracks unchanged; the manifest then written lists no track whose copy
\* raised.
TransferFailureContinues ==
  /\ [][(hist.io_failed # hist'.io_failed /\ hist.io_failed \subseteq hist'.io_failed) =>
          /\ stats'.tracks_failed = stats.tracks_failed + 1
          /\ stats'.playlists_failed = stats.playlists_failed
          /\ tracks_failed_count' = tracks_failed_count + 1
          /\ copied_tracks' = copied_tracks
          /\ pc' = "track" /\ j' = j + 1 /\ i' = i
          /\ tracks' = tracks /\ playlists' = playlists]_vars
  /\ []((prog = "copier" /\ pc = "update") =>
          \A k \in hist.io_failed :
            \A e \in DOMAIN manifests[playlist_file(playlists[i])].entries :
              manifests[playlist_file(playlists[i])].entries[e].title # tracks[k].title)

\* C9 witness: the manifest of a playlist has been written after the copy of
\* one of its tracks raised.
ManifestAfterCopyError ==
  prog = "copier" /\ pc = "update" /\ hist.io_failed # {}

\* C10: the step in which an exception leaves copy_playlist counts the
\* playlist as failed, goes on to the next playlist and changes neither the
\* records in memory nor the state file; a run that finishes has called
\* copy_playlist for every playlist of its list.
PlaylistFailureIsolated ==
  /\ [][(hist.raised # hist'.raised /\ hist.raised \subseteq hist'.raised) =>
          /\ stats'.playlists_failed = stats.playlists_failed + 1
          /\ pc' = "loop" /\ i' = i + 1 /\ playlists' = playlists
          /\ state' = state /\ state_files' = state_files]_vars
  /\ []((prog = "copier" /\ hist.run_end = "finished") => hist.visited = ExportableIds)

\* C10 witness: a run has finished in which an exception ended one playlist
\* and a later playlist was completed.
RunFinishedAfterRaise ==
  /\ prog = "copier" /\ hist.run_end = "finished" /\ hist.raised # {}
  /\ \E a \in DOMAIN playlists : \E b \in DOMAIN playlists :
       /\ a < b /\ playlists[a].id \in hist.raised
       /\ is_completed(state, playlists[b].id)

\* C11 (as stated): a run in which the rows of djmdPlaylist or the ids of
\* djmdSmartList could not be read copies no track and writes no manifest.
CatalogFailureAborts ==
  (prog = "copier" /\ (hist.smart_failed \/ hist.run_end = "fatal")) =>
    (hist.run_copies = 0 /\ manifests = hist.prev_manifests)

\* C12: a run that starts while the destination root does not exist ends at
\* once with exit status 1 and changes nothing on the file system: the root
\* stays absent, no subtree and no log file is made, and no music file, no
\* manifest and no state file is written.
MissingRootChangesNothing ==
  [][(prog = "copier" /\ pc = "idle" /\ ~usb_dir.exists /\ clock' # clock) =>
       /\ pc' = "idle" /\ exit_status' = "1"
       /\ usb_dir' = usb_dir /\ disk' = disk]_vars

\* C12 witness: a run has ended with status 1 on a destination root that
\* does not exist.
RunEndedWithoutRoot ==
  /\ prog = "copier" /\ ~usb_dir.exists /\ clock > 0
  /\ exit_status = "1" /\ hist.run_end = "fatal"

\* C13 (as stated): no playlist of the list returned by get_all_playlists is
\* the parent of a node of the catalog.
HasChild(id) == \E n \in DOMAIN all_nodes : all_nodes[n].ParentID = id

ParentNeverExportable ==
  prog = "copier" => \A k \in DOMAIN playlists : ~HasChild(playlists[k].id)

\* C14: no id of the loaded set of smart playlists is in the list returned by
\* get_all_playlists or among the playlists the exporter iterates over, and
\* neither program processes such an id.
SmartNeverExportable ==
  prog \in {"copier", "exporter"} =>
    /\ \A k \in DOMAIN playlists : playlists[k].id \notin smart_playlist_ids
    /\ hist.visited \cap smart_playlist_ids = {}
    /\ hist.processed \cap smart_playlist_ids = {}

\* C14 witness: a run of the exporter has finished and has exported other
\* playlists, while a loaded smart id has rows and no child.
SmartLeafLeftOut ==
  /\ prog = "exporter" /\ hist.run_end = "finished" /\ hist.processed # {}
  /\ \E id \in smart_playlist_ids : PlaylistRows(id) # <<>> /\ ~HasChild(id)

\* C15: for an absolute directory dir and a file name that is none of its
\* segments, normalize_rekordbox_path returns dir/name for each of the four
\* shapes of the folder reference: dir alone, dir/name, dir/name/name and
\* dir/name/other, with or without a trailing slash.
PatternDirs == {<<>>, <<"/", "m">>}

PatternNames(dir) ==
  {n \in Names(MaxName) : /\ n # <<>>
                          /\ \A k \in DOMAIN n : n[k] \in {"s", "m"}
                          /\ Find(dir \o <<"/">>, <<"/">> \o n \o <<"/">>) = 0}

Patterns(dir, name) ==
  LET plain == {dir \o <<"/">>} \cup (IF dir = <<>> THEN {} ELSE {dir})
      ends == {dir \o <<"/">> \o name}
      doubled == {dir \o <<"/">> \o name \o <<"/">> \o name}
      interior == {dir \o <<"/">> \o name \o <<"/">> \o other :
                     other \in {<<"m">>, <<"s">>} \ {name}}
      shapes == plain \cup ends \cup doubled \cup interior
  IN shapes \cup {f \o <<"/">> : f \in {g \in shapes : Last(g) # "/"}}

NormalizeResolvesPatterns ==
  \A dir \in PatternDirs :
    \A name \in PatternNames(dir) :
      (call.fn = "normalize" /\ call.filename = name /\ call.folder \in Patterns(dir, name))
        => call.result = [none |-> FALSE, path |-> dir \o <<"/">> \o name]

\* C15 witness: the folder reference /m/s/s with the file name s has given /m/s.
DoubledNameResolved ==
  /\ call.fn = "normalize" /\ call.filename = <<"s">>
  /\ call.folder = <<"/", "m", "/", "s", "/", "s">>
  /\ call.result = [none |-> FALSE, path |-> <<"/", "m", "/", "s">>]

\* C16 (as stated): normalize_rekordbox_path returns a path for every pair of
\* a folder reference and a file reference.
NormalizeAlwaysReturnsPath ==
  call.fn = "normalize" => ~call.result.none

\* C17: the path line that create_m3u8_playlist writes for a track under the
\* music subtree, in a manifest under the manifests subtree, is not an
\* absolute path and, joined to the directory of the manifest, is the
\* destination path of the track.
RelativeLineRoundTrip ==
  call.fn = "relpath" =>
    LET line == call.manifest.entries[1].path
    IN /\ ~IsPrefix(usb_root, line)
       /\ line # call.track
       /\ join_norm(call.dir, line) = call.track

\* C17 witness: a line that climbs from a manifest directory two levels below
\* the manifests subtree to a track two levels below the music subtree.
LineClimbsToMusic ==
  /\ call.fn = "relpath"
  /\ Len(call.dir) = Len(playlists_root) + 2 /\ Len(call.track) = Len(music_root) + 3
  /\ SubSeq(call.manifest.entries[1].path, 1, 3) = <<C(".."), C(".."), C("..")>>

\* C18: the state file under its name is never partially written, however
\* save_state is interrupted; whenever it changes it becomes the complete new
\* version, and a resuming run loads the playlists the state file holds
StateFileAtomic ==
  [][/\ ~Partial(CopierFile')
     /\ CopierFile' # CopierFile =>
          CopierFile' = [exists |-> TRUE, playlists |-> state, stats |-> stats,
                         timestamp |-> clock]
     /\ (prog = "copier" /\ pc = "idle" /\ pc' = "loop" /\ resume') =>
          state' = IF CopierFile.exists THEN CopierFile.playlists ELSE EmptyMap]_vars

\* a resuming run has loaded the previous complete version after the process
\* was killed while the next version was being written
LoadedAfterCutSave ==
  /\ prog = "copier" /\ pc = "loop" /\ resume /\ hist.cut_save
  /\ Partial(state_files[state_tmp])
  /\ CopierFile.exists /\ state = CopierFile.playlists
  /\ CompletedIds(CopierFile) # {} /\ ~(ExportableIds \subseteq CompletedIds(CopierFile))

\* C19: when a dry run of ResumableExporter has ended, the destination root,
\* the directories made in it and the files under it are what they were when
\* the run started
DryRunChangesNothing ==
  (prog = "resumable" /\ dry_run /\ pc = "idle" /\ hist.run_end \in {"finished", "fatal"})
    => <<usb_dir, disk>> = hist.before

\* C20: in a resuming run of the copier that follows an interrupted run, the
\* source files copied again although an earlier run had copied them
\* completely are at most one batch
ReworkWithinOneBatch ==
  (prog = "copier" /\ resume /\ hist.prev_end = "killed")
    => Cardinality(hist.recopied) <= Batch

\* C21: a playlist without tracks, or whose tracks all have missing source
\* files, is never newly recorded as completed and never counted as
\* completed, by copy_playlist and by ResumableExporter.export
NoSourceNeverCompleted ==
  [][/\ (prog = "copier" /\ pc # "idle" /\ i <= Len(playlists)
         /\ (stats'.playlists_completed > stats.playlists_completed
             \/ (is_completed(state', playlists[i].id)
                 /\ ~is_completed(state, playlists[i].id))))
          => \E k \in DOMAIN tracks : tracks[k].exists
     /\ (prog = "resumable" /\ pc # "idle" /\ i <= Len(playlists)
         /\ r_completed(state', playlist_key(playlists[i]))
         /\ ~r_completed(state, playlist_key(playlists[i])))
          => copied_tracks # <<>>]_vars

\* C22 (as stated): the counters printed at the end of a finished run count
\* only the events of that run: none of them started above zero, and
\* tracks_copied is the number of copies the run made
PrintedCounters ==
  {"playlists_completed", "playlists_skipped", "playlists_failed", "tracks_copied",
   "tracks_skipped", "tracks_failed", "bytes_copied"}

PrintedStatsPerRun ==
  (prog = "copier" /\ pc = "idle" /\ hist.run_end = "finished")
    => /\ \A f \in PrintedCounters : hist.start_stats[f] = 0
       /\ stats.tracks_copied = hist.run_copies

\* C22 (amended): a run starts every printed counter at the value stored in
\* the state file it loads, at zero when it loads none, and the counters
\* printed at its end are those values plus the events of the run
StatsContinueStored ==
  [][/\ (prog = "copier" /\ pc = "idle" /\ pc' = "loop")
          => \A f \in PrintedCounters :
               stats'[f] = IF resume' /\ CopierFile.exists /\ ~Partial(CopierFile)
                             THEN CopierFile.stats[f] ELSE 0
     /\ (prog = "copier" /\ pc' = "idle" /\ hist'.run_end = "finished")
          => stats'.tracks_copied = hist'.start_stats.tracks_copied + hist'.run_copies]_vars

\* a resuming run has finished that started from stored counters above zero
\* and has copied files itself
ResumedRunAddedToStored ==
  /\ prog = "copier" /\ pc = "idle" /\ hist.run_end = "finished" /\ resume
  /\ hist.start_stats.tracks_copied > 0 /\ hist.run_copies > 0
  /\ hist.start_stats.playlists_completed > 0

\* The record of the current playlist in a state file says: not completed,
\* n tracks so far
CheckpointRecord(file, key, n) ==
  /\ file.exists
  /\ key \in DOMAIN file.playlists
  /\ ~file.playlists[key].completed
  /\ file.playlists[key].tracks_exported = n

\* C23 (as stated): in both exporters, whenever the files of a playlist's
\* transfer reach a multiple of the batch (50, 25), the state file holds the
\* playlist's record with the count so far and completed = false
CheckpointEveryBatch ==
  [][/\ (prog = "exporter" /\ pc = "track"
          /\ tracks_copied_count' > tracks_copied_count
          /\ tracks_copied_count' % Batch = 0)
          => CheckpointRecord(state_files'[state_file("exporter")], playlists[i].id,
                              tracks_copied_count')
     /\ (prog = "resumable" /\ pc = "track"
          /\ tracks_copied_count' > tracks_copied_count
          /\ tracks_copied_count' % CheckpointEvery = 0)
          => CheckpointRecord(state_files'[state_file("resumable")],
                              playlist_key(playlists[i]), tracks_copied_count')]_vars

\* C23 (amended): the same in the runs that keep a state file, the exporter
\* without --no-resume and the resumable exporter without --dry-run
CheckpointEveryBatchWhenKept ==
  [][/\ (prog = "exporter" /\ pc = "track" /\ resume
          /\ tracks_copied_count' > tracks_copied_count
          /\ tracks_copied_count' % Batch = 0)
          => CheckpointRecord(state_files'[state_file("exporter")], playlists[i].id,
                              tracks_copied_count')
     /\ (prog = "resumable" /\ pc = "track" /\ ~dry_run
          /\ tracks_copied_count' > tracks_copied_count
          /\ tracks_copied_count' % CheckpointEvery = 0)
          => CheckpointRecord(state_files'[state_file("resumable")],
                              playlist_key(playlists[i]), tracks_copied_count')]_vars

\* the exporter, keeping a state file, is inside a playlist after its first
\* batch and the state file holds the record of the batch
BatchCheckpointed ==
  /\ prog = "exporter" /\ pc = "track" /\ resume /\ j <= Len(tracks)
  /\ tracks_copied_count = Batch
  /\ CheckpointRecord(ExporterFile, playlists[i].id, Batch)

\* C24: for every parent relation, cycles included, the walk of
\* get_all_playlists and of playlist_path comes to its end, has visited no
\* id twice, and a node whose parent is not loaded is the top of the path
WalkTerminates ==
  /\ [](prog = "walk" =>
          /\ \A a, b \in DOMAIN call.order : a # b => call.order[a] # call.order[b]
          /\ call.done =>
                /\ call.path_parts # <<>>
                /\ Last(call.path_parts) = call.node_id
                /\ \A k \in DOMAIN call.path_parts :
                      /\ call.parent[call.path_parts[k]] \notin WalkIds => k = 1
                      /\ k > 1 => call.parent[call.path_parts[k]] = call.path_parts[k - 1])
  /\ <>(prog = "walk" /\ call.done)

\* a walk has ended on a node it had visited: the parents form a cycle of
\* more than one node
WalkEndedOnCycle ==
  /\ prog = "walk" /\ call.done
  /\ call.current_id \in call.visited
  /\ Len(call.order) > 1

\* a walk has ended with a path of more than one node whose top has a parent
\* that is not loaded
WalkEndedOnAbsentParent ==
  /\ prog = "walk" /\ call.done
  /\ Len(call.path_parts) > 1
  /\ call.parent[call.path_parts[1]] = "gone"

\* C25: in every persisted state of the copier, a playlist recorded as
\* completed has its manifest on the stick at the recorded path
CompletedHasManifest ==
  (CopierFile.exists /\ ~Partial(CopierFile))
    => \A id \in DOMAIN CopierFile.playlists :
         CopierFile.playlists[id].completed
           => CopierFile.playlists[id].playlist_file \in DOMAIN manifests

\* The number of rows of djmdSongPlaylist of a set of playlists
RECURSIVE CatalogRows(_)
CatalogRows(ids) ==
  IF ids = {} THEN 0
  ELSE LET id == CHOOSE x \in ids : TRUE
       IN Len(PlaylistRows(id)) + CatalogRows(ids \ {id})

\* C26: when a run of the copier has finished in which no exception left
\* copy_playlist, the tracks it counted are the catalog rows of the playlists
\* whose tracks it enumerated, each counted as copied, skipped or failed
EveryRowRecorded ==
  (prog = "copier" /\ pc = "idle" /\ hist.run_end = "finished" /\ hist.raised = {})
    => LET in_run(f) == stats[f] - hist.start_stats[f]
       IN /\ in_run("tracks_total") = CatalogRows(hist.processed)
          /\ in_run("tracks_copied") + in_run("tracks_skipped") + in_run("tracks_failed")
               = CatalogRows(hist.processed)

PlaylistOutcomes(st) ==
  st.playlists_completed + st.playlists_skipped + st.playlists_failed

\* C27: within a run of the copier, every step that moves on to the next
\* playlist of the list adds one to exactly one of playlists_completed,
\* playlists_skipped and playlists_failed, and no other step changes them
OneOutcomePerPlaylist ==
  [][(prog = "copier" /\ pc # "idle" /\ pc' # "idle")
       => /\ i' = i + 1 => PlaylistOutcomes(stats') = PlaylistOutcomes(stats) + 1
          /\ i' = i => PlaylistOutcomes(stats') = PlaylistOutcomes(stats)]_vars

\* C28: two distinct source files that the copier has copied never have the
\* same destination, no file under the music subtree is replaced by a copy of
\* another source, and no track is passed over as already copied because of
\* a file that came from another source
DestinationInjective ==
  [][prog = "copier" =>
       /\ \A f, g \in hist'.copied_now :
            f # g => CopierDest(f) # CopierDest(g)
       /\ \A d \in MusicPaths :
            (usb_files[d] # NoFile /\ usb_files'[d] # usb_files[d])
              => usb_files'[d].f = usb_files[d].f
       /\ (pc = "track" /\ j <= Len(tracks) /\ tracks[j].exists
           /\ stats'.tracks_skipped > stats.tracks_skipped /\ src_exists[CurSrc])
            => usb_files[CurDest].f = CurSrc]_vars

\* C29: two playlists recorded as completed never have the same manifest
\* path, and a manifest is never replaced by the manifest of a playlist of
\* another full path
ManifestPerPlaylist ==
  [][prog = "copier" =>
       /\ \A a, b \in DOMAIN state' :
            (a # b /\ state'[a].completed /\ state'[b].completed)
              => state'[a].playlist_file # state'[b].playlist_file
       /\ \A p \in DOMAIN manifests :
            manifests'[p] # manifests[p]
              => manifests'[p].original_path = manifests[p].original_path]_vars

\* C30: when the copier writes a manifest, the destination of every track
\* it lists is a file of the music subtree
ManifestEntriesPresent ==
  [][(prog = "copier" /\ manifests' # manifests)
       => \A k \in DOMAIN copied_tracks :
            usb_files[copied_tracks[k].dest_path] # NoFile]_vars

====
